---- MODULE Spec2Model ----
(***************************************************************************)
(* AlgoEase bounty escrow: the Algopy contract (algoease_bounty_contract), *)
(* the PyTeal V6 contract (algoease_contract_v6) and the PyTeal escrow     *)
(* contract (algoease_bounty_escrow) as state machines over the            *)
(* application's box storage, its global bounty counter, its account       *)
(* balance and the inner payments it has issued.                           *)
(*                                                                         *)
(* Boxes are byte sequences with the layout of the source (113 fixed bytes *)
(* followed by the task description, 73 in the escrow contract); every     *)
(* read is an extract of bytes and every write is a write of bytes, as in  *)
(* the source.                                                             *)
(*                                                                         *)
(* One application call is one atomic step: the AVM either commits all of  *)
(* a call's writes and inner payments or none of them (AppCall).           *)
(***************************************************************************)
EXTENDS Integers, Sequences, FiniteSets, TLC

(***************************************************************************)
(* Bounds of the model.                                                    *)
(***************************************************************************)
MaxBounties == 2
MaxTime == 2
MaxAmount == 1
NumAccounts == 3
NumClients == 1
NumVerifiers == 2
MaxDescLen == 5
LockstepBounties == 1

(***************************************************************************)
(* Bytes: itob / btoi / extract / bzero / box writes.                      *)
(***************************************************************************)
RECURSIVE BigEndian(_, _)
BigEndian(n, width) ==
    IF width = 0 THEN <<>> ELSE Append(BigEndian(n \div 256, width - 1), n % 256)

\* itob: the 8-byte big-endian encoding of a uint64.
Itob(n) == BigEndian(n, 8)

RECURSIVE BtoiAcc(_, _, _)
BtoiAcc(b, i, acc) == IF i > Len(b) THEN acc ELSE BtoiAcc(b, i + 1, acc * 256 + b[i])

\* btoi: the big-endian value of a byte string.
Btoi(b) == BtoiAcc(b, 1, 0)

\* extract(b, start, length): the bytes b[start .. start+length-1], 0-based.
Extract(b, start, length) == SubSeq(b, start + 1, start + length)

BytesZero(n) == [i \in 1..n |-> 0]

\* The value a failed box operation stands for (no box holds a negative byte).
StoreFault == <<-1>>


\* op.Box.put(name, offset, bytes) as the Algopy contract calls it: the bytes
\* are written over the box starting at the offset; the write must lie inside
\* the box, whose length never changes.
BoxPut(box, offset, data) ==
    IF box = StoreFault \/ offset + Len(data) > Len(box)
    THEN StoreFault
    ELSE [i \in 1..Len(box) |->
            IF i > offset /\ i <= offset + Len(data) THEN data[i - offset] ELSE box[i]]

(***************************************************************************)
(* Accounts.  An account is a 32-byte address; account 0 is the zero       *)
(* address.                                                                *)
(***************************************************************************)
Accounts == 1..NumAccounts
Addr(a) == [i \in 1..32 |-> IF i = 32 THEN a ELSE 0]
ZERO_ADDR == BytesZero(32)
\* The application's own (escrow) address, as a payment receiver.
EscrowAddr == [i \in 1..32 |-> 255]

(***************************************************************************)
(* Box layout.                                                             *)
(***************************************************************************)
CLIENT_OFFSET == 0
FREELANCER_OFFSET == 32
VERIFIER_OFFSET == 64
AMOUNT_OFFSET == 96
DEADLINE_OFFSET == 104
STATUS_OFFSET == 112
TASK_DESC_OFFSET == 113

\* "bounty_" as bytes.
BOX_PREFIX == <<98, 111, 117, 110, 116, 121, 95>>

\* arc4.String(x).bytes: the ARC4 encoding, a 2-byte length then the content.
Arc4StringBytes(content) == <<Len(content) \div 256, Len(content) % 256>> \o content

StatusNames == {"OPEN", "ACCEPTED", "SUBMITTED", "APPROVED", "CLAIMED", "REJECTED", "REFUNDED"}

Algopy_STATUS ==
    [OPEN |-> 0, ACCEPTED |-> 1, SUBMITTED |-> 2, APPROVED |-> 3,
     CLAIMED |-> 4, REJECTED |-> 5, REFUNDED |-> 6]

V6_STATUS ==
    [OPEN |-> 0, ACCEPTED |-> 1, SUBMITTED |-> 6, APPROVED |-> 2,
     CLAIMED |-> 3, REFUNDED |-> 4, REJECTED |-> 5]

(***************************************************************************)
(* Application state and handler results.                                  *)
(*   bounty_count : the global counter                                     *)
(*   boxes        : box name -> box bytes                                  *)
(*   balance      : the application account's spendable balance            *)
(*   itxns        : the inner payments issued so far, in order             *)
(***************************************************************************)
Genesis == [bounty_count |-> 0, boxes |-> <<>>, balance |-> 0, itxns |-> <<>>]

\* What a handler returns: the state it reached and how it ended.  A handler
\* that fails returns the state at the point of failure (with the writes made
\* so far).
Ok(s) == [s |-> s, err |-> "OK"]
Fail(s, e) == [s |-> s, err |-> e]

\* One application call: the execution substrate commits a call's effects
\* when it succeeds and discards all of them when it fails.
AppCall(s, r) == IF r.err = "OK" THEN r ELSE [s |-> s, err |-> r.err]

BoxExists(s, name) == name \in DOMAIN s.boxes

\* A box written under a name (created if absent).
WithBox(s, name, box) ==
    [s EXCEPT !.boxes = [n \in (DOMAIN s.boxes) \cup {name} |->
                            IF n = name THEN box ELSE s.boxes[n]]]

\* op.Box.create(name, size): a new zero-filled box of the given size; an
\* existing box of that size is kept as it is, one of another size is an error.
BoxCreate(s, name, size) ==
    IF ~BoxExists(s, name) THEN BytesZero(size)
    ELSE IF Len(s.boxes[name]) = size THEN s.boxes[name]
    ELSE StoreFault

\* App.box_put(name, value): the box is created with the value, or replaced
\* by it when it exists with the same length.
BoxPutWhole(s, name, value) ==
    IF BoxExists(s, name) /\ Len(s.boxes[name]) # Len(value) THEN StoreFault ELSE value

\* An inner payment from the application account.  It fails when the
\* submission is refused (payOk = FALSE: the fee is not covered, the receiver
\* cannot take the payment, ...) or the account cannot pay amount plus its own
\* fee.  `op` and `bounty` record which call issued it.
CanPay(s, amount, fee, payOk) == payOk /\ s.balance >= amount + fee

Pay(s, op, bounty, receiver, amount, fee) ==
    [s EXCEPT !.balance = s.balance - (amount + fee),
              !.itxns = Append(s.itxns,
                          [op |-> op, bounty |-> bounty, receiver |-> receiver,
                           amount |-> amount, fee |-> fee])]

(***************************************************************************)
(* The transaction group of a create_bounty call.  `shape` enumerates the  *)
(* ways the group can be presented:                                        *)
(*   "ok"            payment then call, payment by the caller to the escrow*)
(*   "alone"         the call is the only transaction of its group         *)
(*   "three"         a third transaction follows the call                  *)
(*   "first"         the call comes first and the payment second           *)
(*   "wrongReceiver" the payment goes to another account                   *)
(*   "wrongSender"   the payment is sent by another account                *)
(*   "notPayment"    the first transaction is not a payment                *)
(*   "noVerifier"    the call's accounts array is empty                    *)
(*   "badArgs"       the call has one application argument too few         *)
(***************************************************************************)
Shapes ==
    {"ok", "alone", "three", "first", "wrongReceiver", "wrongSender",
     "notPayment", "noVerifier", "badArgs"}

OtherAccount(a) == IF a = NumAccounts THEN 1 ELSE a + 1

\* The fields of the group the handlers read.  gtxn0 is Gtxn[0]; accounts is
\* the call's accounts array, in which the caller places the verifier.
Group(shape, sender, payAmount, verifier) ==
    [group_size |-> CASE shape = "alone" -> 1 [] shape = "three" -> 3 [] OTHER -> 2,
     group_index |-> CASE shape \in {"alone", "first"} -> 0 [] OTHER -> 1,
     gtxn0 |-> [type |-> IF shape \in {"alone", "first", "notPayment"} THEN "appl" ELSE "pay",
                sender |-> IF shape = "wrongSender" THEN Addr(OtherAccount(sender))
                           ELSE Addr(sender),
                receiver |-> IF shape = "wrongReceiver" THEN Addr(OtherAccount(sender))
                             ELSE EscrowAddr,
                amount |-> IF shape \in {"alone", "first", "notPayment"} THEN 0
                           ELSE payAmount],
     accounts |-> IF shape = "noVerifier" THEN <<>> ELSE <<Addr(verifier)>>,
     num_app_args |-> IF shape = "badArgs" THEN 3 ELSE 4]

(***************************************************************************)
(* Algopy contract (algoease_bounty_contract.py).                          *)
(***************************************************************************)
Algopy_box_name(bounty_id) == Arc4StringBytes(BOX_PREFIX) \o Itob(bounty_id)

\* The fields as every Algopy method reads them: op.Box.extract at the fixed
\* offsets, op.btoi for the numbers.
Algopy_client(box) == Extract(box, 0, 32)
Algopy_freelancer(box) == Extract(box, 32, 32)
Algopy_verifier(box) == Extract(box, 64, 32)
Algopy_amount(box) == Btoi(Extract(box, 96, 8))
Algopy_deadline(box) == Btoi(Extract(box, 104, 8))
Algopy_status(box) == Btoi(Extract(box, 112, 1))

\* The status write of every Algopy transition:
\*   op.Box.put(box_name, UInt64(112), op.itob(STATUS_x))
Algopy_put_status(box, status) == BoxPut(box, 112, Itob(status))

\* create_bounty that does not advance the counter.
Algopy_create_bounty_KeepsCount(s, sender, g, deadline, task_description, now) ==
    LET payment == g.gtxn0
        \* the Account argument is passed through the accounts array
        verifier == g.accounts[1]
        amount == payment.amount
        bounty_id == s.bounty_count
        box_name == Algopy_box_name(bounty_id)
        task_desc_bytes == Arc4StringBytes(task_description)
        box_size == 113 + Len(task_desc_bytes)
        b0 == BoxCreate(s, box_name, box_size)
        b1 == BoxPut(b0, 0, Addr(sender))
        b2 == BoxPut(b1, 32, BytesZero(32))
        b3 == BoxPut(b2, 64, verifier)
        b4 == BoxPut(b3, 96, Itob(amount))
        b5 == BoxPut(b4, 104, Itob(deadline))
        b6 == Algopy_put_status(b5, Algopy_STATUS.OPEN)
        b7 == BoxPut(b6, 113, task_desc_bytes)
    IN  \* ARC4 routing: the arguments decode and the transaction before the
        \* call is the payment argument.
        IF g.num_app_args # 4 \/ Len(g.accounts) < 1 THEN Fail(s, "BadArgs")
        ELSE IF payment.type # "pay" THEN Fail(s, "InvalidFunding")
        ELSE IF g.group_size # 2 THEN Fail(s, "InvalidFunding")
        ELSE IF g.group_index # 1 THEN Fail(s, "InvalidFunding")
        ELSE IF payment.receiver # EscrowAddr THEN Fail(s, "InvalidFunding")
        ELSE IF payment.sender # Addr(sender) THEN Fail(s, "InvalidFunding")
        ELSE IF ~(amount > 0) THEN Fail(s, "InvalidFunding")
        ELSE IF ~(deadline > now) THEN Fail(s, "DeadlineNotFuture")
        ELSE IF b0 = StoreFault THEN Fail(s, "StoreError")
        ELSE IF b6 = StoreFault
             THEN Fail([WithBox(s, box_name, b5) EXCEPT !.bounty_count = s.bounty_count + 1],
                       "StoreError")
        ELSE Ok([WithBox(s, box_name, b7) EXCEPT
                    !.bounty_count = s.bounty_count,
                    !.balance = s.balance + amount])

Algopy_create_bounty(s, sender, g, deadline, task_description, now) ==
    LET payment == g.gtxn0
        \* the Account argument is passed through the accounts array
        verifier == g.accounts[1]
        amount == payment.amount
        bounty_id == s.bounty_count
        box_name == Algopy_box_name(bounty_id)
        task_desc_bytes == Arc4StringBytes(task_description)
        box_size == 113 + Len(task_desc_bytes)
        b0 == BoxCreate(s, box_name, box_size)
        b1 == BoxPut(b0, 0, Addr(sender))
        b2 == BoxPut(b1, 32, BytesZero(32))
        b3 == BoxPut(b2, 64, verifier)
        b4 == BoxPut(b3, 96, Itob(amount))
        b5 == BoxPut(b4, 104, Itob(deadline))
        b6 == Algopy_put_status(b5, Algopy_STATUS.OPEN)
        b7 == BoxPut(b6, 113, task_desc_bytes)
    IN  \* ARC4 routing: the arguments decode and the transaction before the
        \* call is the payment argument.
        IF g.num_app_args # 4 \/ Len(g.accounts) < 1 THEN Fail(s, "BadArgs")
        ELSE IF payment.type # "pay" THEN Fail(s, "InvalidFunding")
        ELSE IF g.group_size # 2 THEN Fail(s, "InvalidFunding")
        ELSE IF g.group_index # 1 THEN Fail(s, "InvalidFunding")
        ELSE IF payment.receiver # EscrowAddr THEN Fail(s, "InvalidFunding")
        ELSE IF payment.sender # Addr(sender) THEN Fail(s, "InvalidFunding")
        ELSE IF ~(amount > 0) THEN Fail(s, "InvalidFunding")
        ELSE IF ~(deadline > now) THEN Fail(s, "DeadlineNotFuture")
        ELSE IF b0 = StoreFault THEN Fail(s, "StoreError")
        ELSE IF b6 = StoreFault
             THEN Fail([WithBox(s, box_name, b5) EXCEPT !.bounty_count = s.bounty_count + 1],
                       "StoreError")
        ELSE Ok([WithBox(s, box_name, b7) EXCEPT
                    !.bounty_count = s.bounty_count + 1,
                    !.balance = s.balance + amount])

\* accept_bounty that writes the freelancer before checking the caller.
Algopy_accept_bounty_WritesFirst(s, sender, bounty_id, now) ==
    LET box_name == Algopy_box_name(bounty_id)
        box == s.boxes[box_name]
        b1 == BoxPut(box, 32, Addr(sender))
        b2 == Algopy_put_status(b1, Algopy_STATUS.ACCEPTED)
    IN  IF ~BoxExists(s, box_name) THEN Fail(s, "NotFound")
        ELSE IF Algopy_status(box) # Algopy_STATUS.OPEN THEN Fail(s, "InvalidState")
        ELSE IF ~(now < Algopy_deadline(box)) THEN Fail(s, "DeadlineExpired")
        ELSE IF Addr(sender) = BytesZero(32) THEN Fail(s, "Unauthorized")
        ELSE IF Addr(sender) = Algopy_client(box) THEN Fail(WithBox(s, box_name, b1), "SelfDealing")
        ELSE IF b2 = StoreFault THEN Fail(s, "StoreError")
        ELSE Ok(WithBox(s, box_name, b2))

\* accept_bounty refusing the record's verifier as well as its client.
Algopy_accept_bounty_NotVerifier(s, sender, bounty_id, now) ==
    LET box_name == Algopy_box_name(bounty_id)
        box == s.boxes[box_name]
        b1 == BoxPut(box, 32, Addr(sender))
        b2 == Algopy_put_status(b1, Algopy_STATUS.ACCEPTED)
    IN  IF ~BoxExists(s, box_name) THEN Fail(s, "NotFound")
        ELSE IF Algopy_status(box) # Algopy_STATUS.OPEN THEN Fail(s, "InvalidState")
        ELSE IF ~(now < Algopy_deadline(box)) THEN Fail(s, "DeadlineExpired")
        ELSE IF Addr(sender) = BytesZero(32) THEN Fail(s, "Unauthorized")
        ELSE IF Addr(sender) \in {Algopy_client(box), Algopy_verifier(box)} THEN Fail(s, "SelfDealing")
        ELSE IF b2 = StoreFault THEN Fail(s, "StoreError")
        ELSE Ok(WithBox(s, box_name, b2))

Algopy_accept_bounty(s, sender, bounty_id, now) ==
    LET box_name == Algopy_box_name(bounty_id)
        box == s.boxes[box_name]
        b1 == BoxPut(box, 32, Addr(sender))
        b2 == Algopy_put_status(b1, Algopy_STATUS.ACCEPTED)
    IN  IF ~BoxExists(s, box_name) THEN Fail(s, "NotFound")
        ELSE IF Algopy_status(box) # Algopy_STATUS.OPEN THEN Fail(s, "InvalidState")
        ELSE IF ~(now < Algopy_deadline(box)) THEN Fail(s, "DeadlineExpired")
        ELSE IF Addr(sender) = BytesZero(32) THEN Fail(s, "Unauthorized")
        ELSE IF Addr(sender) = Algopy_client(box) THEN Fail(s, "SelfDealing")
        ELSE IF b2 = StoreFault THEN Fail(s, "StoreError")
        ELSE Ok(WithBox(s, box_name, b2))

Algopy_submit_bounty(s, sender, bounty_id) ==
    LET box_name == Algopy_box_name(bounty_id)
        box == s.boxes[box_name]
        b1 == Algopy_put_status(box, Algopy_STATUS.SUBMITTED)
    IN  IF ~BoxExists(s, box_name) THEN Fail(s, "NotFound")
        ELSE IF Algopy_status(box) # Algopy_STATUS.ACCEPTED THEN Fail(s, "InvalidState")
        ELSE IF Addr(sender) # Algopy_freelancer(box) THEN Fail(s, "Unauthorized")
        ELSE IF b1 = StoreFault THEN Fail(s, "StoreError")
        ELSE Ok(WithBox(s, box_name, b1))

Algopy_approve_bounty(s, sender, bounty_id) ==
    LET box_name == Algopy_box_name(bounty_id)
        box == s.boxes[box_name]
        b1 == Algopy_put_status(box, Algopy_STATUS.APPROVED)
    IN  IF ~BoxExists(s, box_name) THEN Fail(s, "NotFound")
        ELSE IF Algopy_status(box) # Algopy_STATUS.SUBMITTED THEN Fail(s, "InvalidState")
        ELSE IF ~(Addr(sender) = Algopy_client(box) \/ Addr(sender) = Algopy_verifier(box))
             THEN Fail(s, "Unauthorized")
        ELSE IF b1 = StoreFault THEN Fail(s, "StoreError")
        ELSE Ok(WithBox(s, box_name, b1))

Algopy_reject_bounty(s, sender, bounty_id, payOk) ==
    LET box_name == Algopy_box_name(bounty_id)
        box == s.boxes[box_name]
        b1 == Algopy_put_status(box, Algopy_STATUS.REJECTED)
    IN  IF ~BoxExists(s, box_name) THEN Fail(s, "NotFound")
        ELSE IF ~(Algopy_status(box) = Algopy_STATUS.SUBMITTED \/ Algopy_status(box) = Algopy_STATUS.ACCEPTED)
             THEN Fail(s, "InvalidState")
        ELSE IF ~(Addr(sender) = Algopy_client(box) \/ Addr(sender) = Algopy_verifier(box))
             THEN Fail(s, "Unauthorized")
        ELSE IF ~(Algopy_amount(box) > 0) THEN Fail(s, "InvalidAmount")
        ELSE IF b1 = StoreFault THEN Fail(s, "StoreError")
        ELSE IF ~CanPay(s, Algopy_amount(box), 0, payOk)
             THEN Fail(WithBox(s, box_name, b1), "TransferFailed")
        ELSE Ok(Pay(WithBox(s, box_name, b1), "reject", bounty_id, Algopy_client(box), Algopy_amount(box), 0))

Algopy_claim_bounty(s, sender, bounty_id, payOk) ==
    LET box_name == Algopy_box_name(bounty_id)
        box == s.boxes[box_name]
        b1 == Algopy_put_status(box, Algopy_STATUS.CLAIMED)
    IN  IF ~BoxExists(s, box_name) THEN Fail(s, "NotFound")
        ELSE IF Algopy_status(box) # Algopy_STATUS.APPROVED THEN Fail(s, "InvalidState")
        ELSE IF Addr(sender) # Algopy_freelancer(box) THEN Fail(s, "Unauthorized")
        ELSE IF ~(Algopy_amount(box) > 0) THEN Fail(s, "InvalidAmount")
        ELSE IF b1 = StoreFault THEN Fail(s, "StoreError")
        ELSE IF ~CanPay(s, Algopy_amount(box), 0, payOk)
             THEN Fail(WithBox(s, box_name, b1), "TransferFailed")
        ELSE Ok(Pay(WithBox(s, box_name, b1), "claim", bounty_id, Algopy_freelancer(box), Algopy_amount(box), 0))

Algopy_refund_bounty(s, sender, bounty_id, now, payOk) ==
    LET box_name == Algopy_box_name(bounty_id)
        box == s.boxes[box_name]
        b1 == Algopy_put_status(box, Algopy_STATUS.REFUNDED)
    IN  IF ~BoxExists(s, box_name) THEN Fail(s, "NotFound")
        ELSE IF Algopy_status(box) = Algopy_STATUS.CLAIMED THEN Fail(s, "InvalidState")
        ELSE IF Algopy_status(box) = Algopy_STATUS.REFUNDED THEN Fail(s, "InvalidState")
        ELSE IF Algopy_status(box) = Algopy_STATUS.REJECTED THEN Fail(s, "InvalidState")
        ELSE IF ~(now < Algopy_deadline(box)) THEN Fail(s, "DeadlineExpired")
        ELSE IF ~(Addr(sender) = Algopy_client(box) \/ Addr(sender) = Algopy_verifier(box))
             THEN Fail(s, "Unauthorized")
        ELSE IF ~(Algopy_amount(box) > 0) THEN Fail(s, "InvalidAmount")
        ELSE IF b1 = StoreFault THEN Fail(s, "StoreError")
        ELSE IF ~CanPay(s, Algopy_amount(box), 0, payOk)
             THEN Fail(WithBox(s, box_name, b1), "TransferFailed")
        ELSE Ok(Pay(WithBox(s, box_name, b1), "refund", bounty_id, Algopy_client(box), Algopy_amount(box), 0))

Algopy_auto_refund(s, sender, bounty_id, now, payOk) ==
    LET box_name == Algopy_box_name(bounty_id)
        box == s.boxes[box_name]
        b1 == Algopy_put_status(box, Algopy_STATUS.REFUNDED)
    IN  IF ~BoxExists(s, box_name) THEN Fail(s, "NotFound")
        ELSE IF Algopy_status(box) = Algopy_STATUS.CLAIMED THEN Fail(s, "InvalidState")
        ELSE IF Algopy_status(box) = Algopy_STATUS.REFUNDED THEN Fail(s, "InvalidState")
        ELSE IF Algopy_status(box) = Algopy_STATUS.REJECTED THEN Fail(s, "InvalidState")
        ELSE IF ~(now >= Algopy_deadline(box)) THEN Fail(s, "DeadlineNotExpired")
        ELSE IF ~(Algopy_amount(box) > 0) THEN Fail(s, "InvalidAmount")
        ELSE IF b1 = StoreFault THEN Fail(s, "StoreError")
        ELSE IF ~CanPay(s, Algopy_amount(box), 0, payOk)
             THEN Fail(WithBox(s, box_name, b1), "TransferFailed")
        ELSE Ok(Pay(WithBox(s, box_name, b1), "auto_refund", bounty_id, Algopy_client(box), Algopy_amount(box), 0))

\* get_bounty_info reads a record and changes nothing.  The source leaves
\* two things to the build.  It unpacks op.Box.length(box_name) as
\* (box_exists, box_size), while the library returns (length, exists):
\* lengthFirst says the library's order applies, and then box_size is the
\* exists flag and box_size - 113 underflows.  It builds the description with
\* arc4.String(task_desc_bytes) from bytes that already carry their length
\* prefix: stringWraps says the constructor encodes them again.  The result is
\* the tuple returned, the description as ARC4 bytes.
Algopy_get_bounty_info(s, bounty_id, lengthFirst, stringWraps) ==
    LET box_name == Algopy_box_name(bounty_id)
        box == s.boxes[box_name]
        length == IF BoxExists(s, box_name) THEN Len(box) ELSE 0
        exists == IF BoxExists(s, box_name) THEN 1 ELSE 0
        box_exists == IF lengthFirst THEN length ELSE exists
        box_size == IF lengthFirst THEN exists ELSE length
        task_desc_bytes == Extract(box, 113, box_size - 113)
        task_description == IF stringWraps THEN Arc4StringBytes(task_desc_bytes)
                            ELSE task_desc_bytes
    IN  IF box_exists = 0 THEN [err |-> "NotFound", ret |-> <<>>]
        ELSE IF box_size < 113 THEN [err |-> "ArithmeticError", ret |-> <<>>]
        ELSE [err |-> "OK",
              ret |-> [client |-> Algopy_client(box),
                       freelancer |-> Algopy_freelancer(box),
                       verifier |-> Algopy_verifier(box),
                       amount |-> Algopy_amount(box),
                       deadline |-> Algopy_deadline(box),
                       status |-> Algopy_status(box),
                       task_description |-> task_description]]

\* get_bounty_count: returns the global counter.
Algopy_get_bounty_count(s) == [err |-> "OK", ret |-> s.bounty_count]

(***************************************************************************)
(* V6 contract (algoease_contract_v6.py).                                  *)
(***************************************************************************)
get_bounty_box_name(bounty_id) == BOX_PREFIX \o Itob(bounty_id)

\* Txn.accounts[i]: the AVM's accounts field is indexed from the sender:
\* index 0 is the sender of the transaction and index i >= 1 is the i-th
\* entry of the accounts array (Txn.accounts.length() counts the array only).
TxnAccounts(sender, accounts, i) == IF i = 0 THEN Addr(sender) ELSE accounts[i]

\* status_to_bytes taking the first byte of Itob instead of the last.
status_to_bytes_FirstByte(status) ==
    Extract(Itob(status), 0, 1)

\* Itob produces 8 bytes; only the last one is the status byte.
status_to_bytes(status) ==
    Extract(Itob(status), 7, 1)

\* The rewrite every V6 transition does: the fixed fields and the status
\* byte are concatenated anew, followed by the description taken from the
\* old box.
V6_rewrite(box_data, client, freelancer, verifier, status) ==
    client \o freelancer \o verifier
        \o Extract(box_data, AMOUNT_OFFSET, 8)
        \o Extract(box_data, DEADLINE_OFFSET, 8)
        \o status_to_bytes(status)
        \o Extract(box_data, TASK_DESC_OFFSET, Len(box_data) - TASK_DESC_OFFSET)

\* create_bounty that stores the declared amount without comparing it to
\* the payment.
V6_create_bounty_DeclaredAmount(s, sender, g, amountArg, deadlineArg, task_desc, now) ==
    LET amount == Btoi(Itob(amountArg))
        deadline == Btoi(Itob(deadlineArg))
        bounty_id == s.bounty_count
        box_name == get_bounty_box_name(bounty_id)
        value == Addr(sender) \o BytesZero(32) \o TxnAccounts(sender, g.accounts, 0)
                   \o Itob(amount) \o Itob(deadline)
                   \o status_to_bytes(V6_STATUS.OPEN) \o task_desc
        box == BoxPutWhole(s, box_name, value)
    IN  IF g.group_size # 2 THEN Fail(s, "InvalidFunding")
        ELSE IF g.group_index # 1 THEN Fail(s, "InvalidFunding")
        ELSE IF g.num_app_args # 4 THEN Fail(s, "BadArgs")
        ELSE IF ~(Len(g.accounts) >= 1) THEN Fail(s, "BadArgs")
        ELSE IF g.gtxn0.type # "pay" THEN Fail(s, "InvalidFunding")
        ELSE IF g.gtxn0.sender # Addr(sender) THEN Fail(s, "InvalidFunding")
        ELSE IF g.gtxn0.receiver # EscrowAddr THEN Fail(s, "InvalidFunding")
        ELSE IF ~(amount > 0) THEN Fail(s, "InvalidFunding")
        ELSE IF ~(deadline > now) THEN Fail(s, "DeadlineNotFuture")
        ELSE IF box = StoreFault THEN Fail(s, "StoreError")
        ELSE Ok([WithBox(s, box_name, box) EXCEPT
                    !.bounty_count = bounty_id + 1,
                    !.balance = s.balance + g.gtxn0.amount])

\* create_bounty without its check of the payment's receiver.
V6_create_bounty_AnyReceiver(s, sender, g, amountArg, deadlineArg, task_desc, now) ==
    LET amount == Btoi(Itob(amountArg))
        deadline == Btoi(Itob(deadlineArg))
        bounty_id == s.bounty_count
        box_name == get_bounty_box_name(bounty_id)
        value == Addr(sender) \o BytesZero(32) \o TxnAccounts(sender, g.accounts, 0)
                   \o Itob(amount) \o Itob(deadline)
                   \o status_to_bytes(V6_STATUS.OPEN) \o task_desc
        box == BoxPutWhole(s, box_name, value)
    IN  IF g.group_size # 2 THEN Fail(s, "InvalidFunding")
        ELSE IF g.group_index # 1 THEN Fail(s, "InvalidFunding")
        ELSE IF g.num_app_args # 4 THEN Fail(s, "BadArgs")
        ELSE IF ~(Len(g.accounts) >= 1) THEN Fail(s, "BadArgs")
        ELSE IF g.gtxn0.type # "pay" THEN Fail(s, "InvalidFunding")
        ELSE IF g.gtxn0.sender # Addr(sender) THEN Fail(s, "InvalidFunding")
        ELSE IF ~(amount > 0) THEN Fail(s, "InvalidFunding")
        ELSE IF g.gtxn0.amount # amount THEN Fail(s, "InvalidFunding")
        ELSE IF ~(deadline > now) THEN Fail(s, "DeadlineNotFuture")
        ELSE IF box = StoreFault THEN Fail(s, "StoreError")
        ELSE Ok([WithBox(s, box_name, box) EXCEPT
                    !.bounty_count = bounty_id + 1,
                    !.balance = s.balance + g.gtxn0.amount])

\* create_bounty that accepts a deadline equal to the current time.
V6_create_bounty_DeadlineNow(s, sender, g, amountArg, deadlineArg, task_desc, now) ==
    LET amount == Btoi(Itob(amountArg))
        deadline == Btoi(Itob(deadlineArg))
        bounty_id == s.bounty_count
        box_name == get_bounty_box_name(bounty_id)
        value == Addr(sender) \o BytesZero(32) \o TxnAccounts(sender, g.accounts, 0)
                   \o Itob(amount) \o Itob(deadline)
                   \o status_to_bytes(V6_STATUS.OPEN) \o task_desc
        box == BoxPutWhole(s, box_name, value)
    IN  IF g.group_size # 2 THEN Fail(s, "InvalidFunding")
        ELSE IF g.group_index # 1 THEN Fail(s, "InvalidFunding")
        ELSE IF g.num_app_args # 4 THEN Fail(s, "BadArgs")
        ELSE IF ~(Len(g.accounts) >= 1) THEN Fail(s, "BadArgs")
        ELSE IF g.gtxn0.type # "pay" THEN Fail(s, "InvalidFunding")
        ELSE IF g.gtxn0.sender # Addr(sender) THEN Fail(s, "InvalidFunding")
        ELSE IF g.gtxn0.receiver # EscrowAddr THEN Fail(s, "InvalidFunding")
        ELSE IF ~(amount > 0) THEN Fail(s, "InvalidFunding")
        ELSE IF g.gtxn0.amount # amount THEN Fail(s, "InvalidFunding")
        ELSE IF ~(deadline >= now) THEN Fail(s, "DeadlineNotFuture")
        ELSE IF box = StoreFault THEN Fail(s, "StoreError")
        ELSE Ok([WithBox(s, box_name, box) EXCEPT
                    !.bounty_count = bounty_id + 1,
                    !.balance = s.balance + g.gtxn0.amount])

\* create_bounty that keeps every record in the box of id 0.
V6_create_bounty_SameBox(s, sender, g, amountArg, deadlineArg, task_desc, now) ==
    LET amount == Btoi(Itob(amountArg))
        deadline == Btoi(Itob(deadlineArg))
        bounty_id == s.bounty_count
        box_name == get_bounty_box_name(0)
        value == Addr(sender) \o BytesZero(32) \o TxnAccounts(sender, g.accounts, 0)
                   \o Itob(amount) \o Itob(deadline)
                   \o status_to_bytes(V6_STATUS.OPEN) \o task_desc
        box == BoxPutWhole(s, box_name, value)
    IN  IF g.group_size # 2 THEN Fail(s, "InvalidFunding")
        ELSE IF g.group_index # 1 THEN Fail(s, "InvalidFunding")
        ELSE IF g.num_app_args # 4 THEN Fail(s, "BadArgs")
        ELSE IF ~(Len(g.accounts) >= 1) THEN Fail(s, "BadArgs")
        ELSE IF g.gtxn0.type # "pay" THEN Fail(s, "InvalidFunding")
        ELSE IF g.gtxn0.sender # Addr(sender) THEN Fail(s, "InvalidFunding")
        ELSE IF g.gtxn0.receiver # EscrowAddr THEN Fail(s, "InvalidFunding")
        ELSE IF ~(amount > 0) THEN Fail(s, "InvalidFunding")
        ELSE IF g.gtxn0.amount # amount THEN Fail(s, "InvalidFunding")
        ELSE IF ~(deadline > now) THEN Fail(s, "DeadlineNotFuture")
        ELSE IF box = StoreFault THEN Fail(s, "StoreError")
        ELSE Ok([WithBox(s, box_name, box) EXCEPT
                    !.bounty_count = bounty_id + 1,
                    !.balance = s.balance + g.gtxn0.amount])

V6_create_bounty(s, sender, g, amountArg, deadlineArg, task_desc, now) ==
    LET amount == Btoi(Itob(amountArg))
        deadline == Btoi(Itob(deadlineArg))
        bounty_id == s.bounty_count
        box_name == get_bounty_box_name(bounty_id)
        value == Addr(sender) \o BytesZero(32) \o TxnAccounts(sender, g.accounts, 0)
                   \o Itob(amount) \o Itob(deadline)
                   \o status_to_bytes(V6_STATUS.OPEN) \o task_desc
        box == BoxPutWhole(s, box_name, value)
    IN  IF g.group_size # 2 THEN Fail(s, "InvalidFunding")
        ELSE IF g.group_index # 1 THEN Fail(s, "InvalidFunding")
        ELSE IF g.num_app_args # 4 THEN Fail(s, "BadArgs")
        ELSE IF ~(Len(g.accounts) >= 1) THEN Fail(s, "BadArgs")
        ELSE IF g.gtxn0.type # "pay" THEN Fail(s, "InvalidFunding")
        ELSE IF g.gtxn0.sender # Addr(sender) THEN Fail(s, "InvalidFunding")
        ELSE IF g.gtxn0.receiver # EscrowAddr THEN Fail(s, "InvalidFunding")
        ELSE IF ~(amount > 0) THEN Fail(s, "InvalidFunding")
        ELSE IF g.gtxn0.amount # amount THEN Fail(s, "InvalidFunding")
        ELSE IF ~(deadline > now) THEN Fail(s, "DeadlineNotFuture")
        ELSE IF box = StoreFault THEN Fail(s, "StoreError")
        ELSE Ok([WithBox(s, box_name, box) EXCEPT
                    !.bounty_count = bounty_id + 1,
                    !.balance = s.balance + g.gtxn0.amount])

\* accept_bounty that rewrites the record with the freelancer it read.
V6_accept_bounty_NoFreelancer(s, sender, nargs, bounty_id, now) ==
    LET box_name == get_bounty_box_name(bounty_id)
        box_data == s.boxes[box_name]
        status == Btoi(Extract(box_data, STATUS_OFFSET, 1))
        deadline == Btoi(Extract(box_data, DEADLINE_OFFSET, 8))
        new == V6_rewrite(box_data,
                   Extract(box_data, CLIENT_OFFSET, 32),
                   Extract(box_data, FREELANCER_OFFSET, 32),
                   Extract(box_data, VERIFIER_OFFSET, 32),
                   V6_STATUS.ACCEPTED)
    IN  IF nargs # 2 THEN Fail(s, "BadArgs")
        ELSE IF ~BoxExists(s, box_name) THEN Fail(s, "NotFound")
        ELSE IF status # V6_STATUS.OPEN THEN Fail(s, "InvalidState")
        ELSE IF ~(now < deadline) THEN Fail(s, "DeadlineExpired")
        ELSE IF Addr(sender) = ZERO_ADDR THEN Fail(s, "Unauthorized")
        ELSE IF Addr(sender) = Extract(box_data, CLIENT_OFFSET, 32) THEN Fail(s, "SelfDealing")
        ELSE IF BoxPutWhole(s, box_name, new) = StoreFault THEN Fail(s, "StoreError")
        ELSE Ok(WithBox(s, box_name, new))

\* accept_bounty without its check that the caller is not the client.
V6_accept_bounty_ClientMayAccept(s, sender, nargs, bounty_id, now) ==
    LET box_name == get_bounty_box_name(bounty_id)
        box_data == s.boxes[box_name]
        status == Btoi(Extract(box_data, STATUS_OFFSET, 1))
        deadline == Btoi(Extract(box_data, DEADLINE_OFFSET, 8))
        new == V6_rewrite(box_data,
                   Extract(box_data, CLIENT_OFFSET, 32),
                   Addr(sender),
                   Extract(box_data, VERIFIER_OFFSET, 32),
                   V6_STATUS.ACCEPTED)
    IN  IF nargs # 2 THEN Fail(s, "BadArgs")
        ELSE IF ~BoxExists(s, box_name) THEN Fail(s, "NotFound")
        ELSE IF status # V6_STATUS.OPEN THEN Fail(s, "InvalidState")
        ELSE IF ~(now < deadline) THEN Fail(s, "DeadlineExpired")
        ELSE IF Addr(sender) = ZERO_ADDR THEN Fail(s, "Unauthorized")
        ELSE IF BoxPutWhole(s, box_name, new) = StoreFault THEN Fail(s, "StoreError")
        ELSE Ok(WithBox(s, box_name, new))

V6_accept_bounty(s, sender, nargs, bounty_id, now) ==
    LET box_name == get_bounty_box_name(bounty_id)
        box_data == s.boxes[box_name]
        status == Btoi(Extract(box_data, STATUS_OFFSET, 1))
        deadline == Btoi(Extract(box_data, DEADLINE_OFFSET, 8))
        new == V6_rewrite(box_data,
                   Extract(box_data, CLIENT_OFFSET, 32),
                   Addr(sender),
                   Extract(box_data, VERIFIER_OFFSET, 32),
                   V6_STATUS.ACCEPTED)
    IN  IF nargs # 2 THEN Fail(s, "BadArgs")
        ELSE IF ~BoxExists(s, box_name) THEN Fail(s, "NotFound")
        ELSE IF status # V6_STATUS.OPEN THEN Fail(s, "InvalidState")
        ELSE IF ~(now < deadline) THEN Fail(s, "DeadlineExpired")
        ELSE IF Addr(sender) = ZERO_ADDR THEN Fail(s, "Unauthorized")
        ELSE IF Addr(sender) = Extract(box_data, CLIENT_OFFSET, 32) THEN Fail(s, "SelfDealing")
        ELSE IF BoxPutWhole(s, box_name, new) = StoreFault THEN Fail(s, "StoreError")
        ELSE Ok(WithBox(s, box_name, new))

\* submit_bounty without its status check.
V6_submit_bounty_AnyStatus(s, sender, nargs, bounty_id) ==
    LET box_name == get_bounty_box_name(bounty_id)
        box_data == s.boxes[box_name]
        status == Btoi(Extract(box_data, STATUS_OFFSET, 1))
        freelancer == Extract(box_data, FREELANCER_OFFSET, 32)
        new == V6_rewrite(box_data,
                   Extract(box_data, CLIENT_OFFSET, 32),
                   freelancer,
                   Extract(box_data, VERIFIER_OFFSET, 32),
                   V6_STATUS.SUBMITTED)
    IN  IF nargs # 2 THEN Fail(s, "BadArgs")
        ELSE IF ~BoxExists(s, box_name) THEN Fail(s, "NotFound")
        ELSE IF Addr(sender) # freelancer THEN Fail(s, "Unauthorized")
        ELSE IF BoxPutWhole(s, box_name, new) = StoreFault THEN Fail(s, "StoreError")
        ELSE Ok(WithBox(s, box_name, new))

\* submit_bounty without its check of the caller.
V6_submit_bounty_AnyCaller(s, sender, nargs, bounty_id) ==
    LET box_name == get_bounty_box_name(bounty_id)
        box_data == s.boxes[box_name]
        status == Btoi(Extract(box_data, STATUS_OFFSET, 1))
        freelancer == Extract(box_data, FREELANCER_OFFSET, 32)
        new == V6_rewrite(box_data,
                   Extract(box_data, CLIENT_OFFSET, 32),
                   freelancer,
                   Extract(box_data, VERIFIER_OFFSET, 32),
                   V6_STATUS.SUBMITTED)
    IN  IF nargs # 2 THEN Fail(s, "BadArgs")
        ELSE IF ~BoxExists(s, box_name) THEN Fail(s, "NotFound")
        ELSE IF status # V6_STATUS.ACCEPTED THEN Fail(s, "InvalidState")
        ELSE IF BoxPutWhole(s, box_name, new) = StoreFault THEN Fail(s, "StoreError")
        ELSE Ok(WithBox(s, box_name, new))

V6_submit_bounty(s, sender, nargs, bounty_id) ==
    LET box_name == get_bounty_box_name(bounty_id)
        box_data == s.boxes[box_name]
        status == Btoi(Extract(box_data, STATUS_OFFSET, 1))
        freelancer == Extract(box_data, FREELANCER_OFFSET, 32)
        new == V6_rewrite(box_data,
                   Extract(box_data, CLIENT_OFFSET, 32),
                   freelancer,
                   Extract(box_data, VERIFIER_OFFSET, 32),
                   V6_STATUS.SUBMITTED)
    IN  IF nargs # 2 THEN Fail(s, "BadArgs")
        ELSE IF ~BoxExists(s, box_name) THEN Fail(s, "NotFound")
        ELSE IF status # V6_STATUS.ACCEPTED THEN Fail(s, "InvalidState")
        ELSE IF Addr(sender) # freelancer THEN Fail(s, "Unauthorized")
        ELSE IF BoxPutWhole(s, box_name, new) = StoreFault THEN Fail(s, "StoreError")
        ELSE Ok(WithBox(s, box_name, new))

\* approve_bounty without its check of the caller.
V6_approve_bounty_AnyCaller(s, sender, nargs, bounty_id) ==
    LET box_name == get_bounty_box_name(bounty_id)
        box_data == s.boxes[box_name]
        status == Btoi(Extract(box_data, STATUS_OFFSET, 1))
        client == Extract(box_data, CLIENT_OFFSET, 32)
        verifier == Extract(box_data, VERIFIER_OFFSET, 32)
        new == V6_rewrite(box_data, client,
                   Extract(box_data, FREELANCER_OFFSET, 32),
                   verifier,
                   V6_STATUS.APPROVED)
    IN  IF nargs # 2 THEN Fail(s, "BadArgs")
        ELSE IF ~BoxExists(s, box_name) THEN Fail(s, "NotFound")
        ELSE IF status # V6_STATUS.SUBMITTED THEN Fail(s, "InvalidState")
        ELSE IF BoxPutWhole(s, box_name, new) = StoreFault THEN Fail(s, "StoreError")
        ELSE Ok(WithBox(s, box_name, new))

V6_approve_bounty(s, sender, nargs, bounty_id) ==
    LET box_name == get_bounty_box_name(bounty_id)
        box_data == s.boxes[box_name]
        status == Btoi(Extract(box_data, STATUS_OFFSET, 1))
        client == Extract(box_data, CLIENT_OFFSET, 32)
        verifier == Extract(box_data, VERIFIER_OFFSET, 32)
        new == V6_rewrite(box_data, client,
                   Extract(box_data, FREELANCER_OFFSET, 32),
                   verifier,
                   V6_STATUS.APPROVED)
    IN  IF nargs # 2 THEN Fail(s, "BadArgs")
        ELSE IF ~BoxExists(s, box_name) THEN Fail(s, "NotFound")
        ELSE IF status # V6_STATUS.SUBMITTED THEN Fail(s, "InvalidState")
        ELSE IF ~(Addr(sender) = client \/ Addr(sender) = verifier)
             THEN Fail(s, "Unauthorized")
        ELSE IF BoxPutWhole(s, box_name, new) = StoreFault THEN Fail(s, "StoreError")
        ELSE Ok(WithBox(s, box_name, new))

\* accounts: the call's accounts array (a sequence of addresses).
\* reject_bounty that also accepts an APPROVED record.
V6_reject_bounty_AfterApproval(s, sender, nargs, accounts, bounty_id, payOk) ==
    LET client_from_accounts == TxnAccounts(sender, accounts, 0)
        box_name == get_bounty_box_name(bounty_id)
        box_data == s.boxes[box_name]
        status == Btoi(Extract(box_data, STATUS_OFFSET, 1))
        client == Extract(box_data, CLIENT_OFFSET, 32)
        verifier == Extract(box_data, VERIFIER_OFFSET, 32)
        amount == Btoi(Extract(box_data, AMOUNT_OFFSET, 8))
        new == V6_rewrite(box_data, client,
                   Extract(box_data, FREELANCER_OFFSET, 32),
                   verifier,
                   V6_STATUS.REJECTED)
        paid == Pay(s, "reject", bounty_id, client, amount, 0)
    IN  IF nargs # 2 THEN Fail(s, "BadArgs")
        ELSE IF ~(Len(accounts) >= 1) THEN Fail(s, "BadArgs")
        ELSE IF ~BoxExists(s, box_name) THEN Fail(s, "NotFound")
        ELSE IF ~(status = V6_STATUS.SUBMITTED \/ status = V6_STATUS.ACCEPTED \/ status = V6_STATUS.APPROVED)
             THEN Fail(s, "InvalidState")
        ELSE IF ~(Addr(sender) = client \/ Addr(sender) = verifier)
             THEN Fail(s, "Unauthorized")
        ELSE IF client_from_accounts # client THEN Fail(s, "BadAccounts")
        ELSE IF ~(amount > 0) THEN Fail(s, "InvalidAmount")
        ELSE IF ~CanPay(s, amount, 0, payOk) THEN Fail(s, "TransferFailed")
        ELSE IF BoxPutWhole(paid, box_name, new) = StoreFault THEN Fail(s, "StoreError")
        ELSE Ok(WithBox(paid, box_name, new))

V6_reject_bounty(s, sender, nargs, accounts, bounty_id, payOk) ==
    LET client_from_accounts == TxnAccounts(sender, accounts, 0)
        box_name == get_bounty_box_name(bounty_id)
        box_data == s.boxes[box_name]
        status == Btoi(Extract(box_data, STATUS_OFFSET, 1))
        client == Extract(box_data, CLIENT_OFFSET, 32)
        verifier == Extract(box_data, VERIFIER_OFFSET, 32)
        amount == Btoi(Extract(box_data, AMOUNT_OFFSET, 8))
        new == V6_rewrite(box_data, client,
                   Extract(box_data, FREELANCER_OFFSET, 32),
                   verifier,
                   V6_STATUS.REJECTED)
        paid == Pay(s, "reject", bounty_id, client, amount, 0)
    IN  IF nargs # 2 THEN Fail(s, "BadArgs")
        ELSE IF ~(Len(accounts) >= 1) THEN Fail(s, "BadArgs")
        ELSE IF ~BoxExists(s, box_name) THEN Fail(s, "NotFound")
        ELSE IF ~(status = V6_STATUS.SUBMITTED \/ status = V6_STATUS.ACCEPTED)
             THEN Fail(s, "InvalidState")
        ELSE IF ~(Addr(sender) = client \/ Addr(sender) = verifier)
             THEN Fail(s, "Unauthorized")
        ELSE IF client_from_accounts # client THEN Fail(s, "BadAccounts")
        ELSE IF ~(amount > 0) THEN Fail(s, "InvalidAmount")
        ELSE IF ~CanPay(s, amount, 0, payOk) THEN Fail(s, "TransferFailed")
        ELSE IF BoxPutWhole(paid, box_name, new) = StoreFault THEN Fail(s, "StoreError")
        ELSE Ok(WithBox(paid, box_name, new))

\* The inner payment of claim_bounty sets its own fee (src line 488).
V6_CLAIM_FEE == 1000

\* claim_bounty that marks the record CLAIMED though its payment failed.
V6_claim_bounty_IgnoresTransfer(s, sender, nargs, bounty_id, payOk) ==
    LET box_name == get_bounty_box_name(bounty_id)
        box_data == s.boxes[box_name]
        status == Btoi(Extract(box_data, STATUS_OFFSET, 1))
        freelancer == Extract(box_data, FREELANCER_OFFSET, 32)
        amount == Btoi(Extract(box_data, AMOUNT_OFFSET, 8))
        new == V6_rewrite(box_data,
                   Extract(box_data, CLIENT_OFFSET, 32),
                   freelancer,
                   Extract(box_data, VERIFIER_OFFSET, 32),
                   V6_STATUS.CLAIMED)
        paid == Pay(s, "claim", bounty_id, freelancer, amount, V6_CLAIM_FEE)
    IN  IF nargs # 2 THEN Fail(s, "BadArgs")
        ELSE IF ~BoxExists(s, box_name) THEN Fail(s, "NotFound")
        ELSE IF status # V6_STATUS.APPROVED THEN Fail(s, "InvalidState")
        ELSE IF Addr(sender) # freelancer THEN Fail(s, "Unauthorized")
        ELSE IF ~(amount > 0) THEN Fail(s, "InvalidAmount")
        ELSE IF ~CanPay(s, amount, V6_CLAIM_FEE, payOk) THEN Ok(WithBox(s, box_name, new))
        ELSE IF BoxPutWhole(paid, box_name, new) = StoreFault THEN Fail(s, "StoreError")
        ELSE Ok(WithBox(paid, box_name, new))

\* claim_bounty without its check of the caller.
V6_claim_bounty_AnySender(s, sender, nargs, bounty_id, payOk) ==
    LET box_name == get_bounty_box_name(bounty_id)
        box_data == s.boxes[box_name]
        status == Btoi(Extract(box_data, STATUS_OFFSET, 1))
        freelancer == Extract(box_data, FREELANCER_OFFSET, 32)
        amount == Btoi(Extract(box_data, AMOUNT_OFFSET, 8))
        new == V6_rewrite(box_data,
                   Extract(box_data, CLIENT_OFFSET, 32),
                   freelancer,
                   Extract(box_data, VERIFIER_OFFSET, 32),
                   V6_STATUS.CLAIMED)
        paid == Pay(s, "claim", bounty_id, freelancer, amount, V6_CLAIM_FEE)
    IN  IF nargs # 2 THEN Fail(s, "BadArgs")
        ELSE IF ~BoxExists(s, box_name) THEN Fail(s, "NotFound")
        ELSE IF status # V6_STATUS.APPROVED THEN Fail(s, "InvalidState")
        ELSE IF ~(amount > 0) THEN Fail(s, "InvalidAmount")
        ELSE IF ~CanPay(s, amount, V6_CLAIM_FEE, payOk) THEN Fail(s, "TransferFailed")
        ELSE IF BoxPutWhole(paid, box_name, new) = StoreFault THEN Fail(s, "StoreError")
        ELSE Ok(WithBox(paid, box_name, new))

\* claim_bounty paying the record's client instead of its freelancer.
V6_claim_bounty_PaysClient(s, sender, nargs, bounty_id, payOk) ==
    LET box_name == get_bounty_box_name(bounty_id)
        box_data == s.boxes[box_name]
        status == Btoi(Extract(box_data, STATUS_OFFSET, 1))
        freelancer == Extract(box_data, FREELANCER_OFFSET, 32)
        amount == Btoi(Extract(box_data, AMOUNT_OFFSET, 8))
        new == V6_rewrite(box_data,
                   Extract(box_data, CLIENT_OFFSET, 32),
                   freelancer,
                   Extract(box_data, VERIFIER_OFFSET, 32),
                   V6_STATUS.CLAIMED)
        paid == Pay(s, "claim", bounty_id, Extract(box_data, CLIENT_OFFSET, 32), amount, V6_CLAIM_FEE)
    IN  IF nargs # 2 THEN Fail(s, "BadArgs")
        ELSE IF ~BoxExists(s, box_name) THEN Fail(s, "NotFound")
        ELSE IF status # V6_STATUS.APPROVED THEN Fail(s, "InvalidState")
        ELSE IF Addr(sender) # freelancer THEN Fail(s, "Unauthorized")
        ELSE IF ~(amount > 0) THEN Fail(s, "InvalidAmount")
        ELSE IF ~CanPay(s, amount, V6_CLAIM_FEE, payOk) THEN Fail(s, "TransferFailed")
        ELSE IF BoxPutWhole(paid, box_name, new) = StoreFault THEN Fail(s, "StoreError")
        ELSE Ok(WithBox(paid, box_name, new))

V6_claim_bounty(s, sender, nargs, bounty_id, payOk) ==
    LET box_name == get_bounty_box_name(bounty_id)
        box_data == s.boxes[box_name]
        status == Btoi(Extract(box_data, STATUS_OFFSET, 1))
        freelancer == Extract(box_data, FREELANCER_OFFSET, 32)
        amount == Btoi(Extract(box_data, AMOUNT_OFFSET, 8))
        new == V6_rewrite(box_data,
                   Extract(box_data, CLIENT_OFFSET, 32),
                   freelancer,
                   Extract(box_data, VERIFIER_OFFSET, 32),
                   V6_STATUS.CLAIMED)
        paid == Pay(s, "claim", bounty_id, freelancer, amount, V6_CLAIM_FEE)
    IN  IF nargs # 2 THEN Fail(s, "BadArgs")
        ELSE IF ~BoxExists(s, box_name) THEN Fail(s, "NotFound")
        ELSE IF status # V6_STATUS.APPROVED THEN Fail(s, "InvalidState")
        ELSE IF Addr(sender) # freelancer THEN Fail(s, "Unauthorized")
        ELSE IF ~(amount > 0) THEN Fail(s, "InvalidAmount")
        ELSE IF ~CanPay(s, amount, V6_CLAIM_FEE, payOk) THEN Fail(s, "TransferFailed")
        ELSE IF BoxPutWhole(paid, box_name, new) = StoreFault THEN Fail(s, "StoreError")
        ELSE Ok(WithBox(paid, box_name, new))

\* refund_bounty without its check that the record is not REJECTED.
V6_refund_bounty_AfterReject(s, sender, nargs, bounty_id, now, payOk) ==
    LET box_name == get_bounty_box_name(bounty_id)
        box_data == s.boxes[box_name]
        status == Btoi(Extract(box_data, STATUS_OFFSET, 1))
        deadline == Btoi(Extract(box_data, DEADLINE_OFFSET, 8))
        client == Extract(box_data, CLIENT_OFFSET, 32)
        amount == Btoi(Extract(box_data, AMOUNT_OFFSET, 8))
        new == V6_rewrite(box_data, client,
                   Extract(box_data, FREELANCER_OFFSET, 32),
                   Extract(box_data, VERIFIER_OFFSET, 32),
                   V6_STATUS.REFUNDED)
        paid == Pay(s, "refund", bounty_id, client, amount, 0)
    IN  IF nargs # 2 THEN Fail(s, "BadArgs")
        ELSE IF ~BoxExists(s, box_name) THEN Fail(s, "NotFound")
        ELSE IF status = V6_STATUS.CLAIMED THEN Fail(s, "InvalidState")
        ELSE IF status = V6_STATUS.REFUNDED THEN Fail(s, "InvalidState")
        ELSE IF ~(now < deadline) THEN Fail(s, "DeadlineExpired")
        ELSE IF ~(Addr(sender) = client
                    \/ Addr(sender) = Extract(box_data, VERIFIER_OFFSET, 32))
             THEN Fail(s, "Unauthorized")
        ELSE IF ~(amount > 0) THEN Fail(s, "InvalidAmount")
        ELSE IF ~CanPay(s, amount, 0, payOk) THEN Fail(s, "TransferFailed")
        ELSE IF BoxPutWhole(paid, box_name, new) = StoreFault THEN Fail(s, "StoreError")
        ELSE Ok(WithBox(paid, box_name, new))

V6_refund_bounty(s, sender, nargs, bounty_id, now, payOk) ==
    LET box_name == get_bounty_box_name(bounty_id)
        box_data == s.boxes[box_name]
        status == Btoi(Extract(box_data, STATUS_OFFSET, 1))
        deadline == Btoi(Extract(box_data, DEADLINE_OFFSET, 8))
        client == Extract(box_data, CLIENT_OFFSET, 32)
        amount == Btoi(Extract(box_data, AMOUNT_OFFSET, 8))
        new == V6_rewrite(box_data, client,
                   Extract(box_data, FREELANCER_OFFSET, 32),
                   Extract(box_data, VERIFIER_OFFSET, 32),
                   V6_STATUS.REFUNDED)
        paid == Pay(s, "refund", bounty_id, client, amount, 0)
    IN  IF nargs # 2 THEN Fail(s, "BadArgs")
        ELSE IF ~BoxExists(s, box_name) THEN Fail(s, "NotFound")
        ELSE IF status = V6_STATUS.CLAIMED THEN Fail(s, "InvalidState")
        ELSE IF status = V6_STATUS.REFUNDED THEN Fail(s, "InvalidState")
        ELSE IF status = V6_STATUS.REJECTED THEN Fail(s, "InvalidState")
        ELSE IF ~(now < deadline) THEN Fail(s, "DeadlineExpired")
        ELSE IF ~(Addr(sender) = client
                    \/ Addr(sender) = Extract(box_data, VERIFIER_OFFSET, 32))
             THEN Fail(s, "Unauthorized")
        ELSE IF ~(amount > 0) THEN Fail(s, "InvalidAmount")
        ELSE IF ~CanPay(s, amount, 0, payOk) THEN Fail(s, "TransferFailed")
        ELSE IF BoxPutWhole(paid, box_name, new) = StoreFault THEN Fail(s, "StoreError")
        ELSE Ok(WithBox(paid, box_name, new))

\* auto_refund that opens only strictly after the deadline.
V6_auto_refund_AfterDeadline(s, sender, nargs, bounty_id, now, payOk) ==
    LET box_name == get_bounty_box_name(bounty_id)
        box_data == s.boxes[box_name]
        status == Btoi(Extract(box_data, STATUS_OFFSET, 1))
        deadline == Btoi(Extract(box_data, DEADLINE_OFFSET, 8))
        amount == Btoi(Extract(box_data, AMOUNT_OFFSET, 8))
        client == Extract(box_data, CLIENT_OFFSET, 32)
        new == V6_rewrite(box_data, client,
                   Extract(box_data, FREELANCER_OFFSET, 32),
                   Extract(box_data, VERIFIER_OFFSET, 32),
                   V6_STATUS.REFUNDED)
        paid == Pay(s, "auto_refund", bounty_id, client, amount, 0)
    IN  IF nargs # 2 THEN Fail(s, "BadArgs")
        ELSE IF ~BoxExists(s, box_name) THEN Fail(s, "NotFound")
        ELSE IF status = V6_STATUS.CLAIMED THEN Fail(s, "InvalidState")
        ELSE IF status = V6_STATUS.REFUNDED THEN Fail(s, "InvalidState")
        ELSE IF status = V6_STATUS.REJECTED THEN Fail(s, "InvalidState")
        ELSE IF ~(now > deadline) THEN Fail(s, "DeadlineNotExpired")
        ELSE IF ~(amount > 0) THEN Fail(s, "InvalidAmount")
        ELSE IF ~CanPay(s, amount, 0, payOk) THEN Fail(s, "TransferFailed")
        ELSE IF BoxPutWhole(paid, box_name, new) = StoreFault THEN Fail(s, "StoreError")
        ELSE Ok(WithBox(paid, box_name, new))

V6_auto_refund(s, sender, nargs, bounty_id, now, payOk) ==
    LET box_name == get_bounty_box_name(bounty_id)
        box_data == s.boxes[box_name]
        status == Btoi(Extract(box_data, STATUS_OFFSET, 1))
        deadline == Btoi(Extract(box_data, DEADLINE_OFFSET, 8))
        amount == Btoi(Extract(box_data, AMOUNT_OFFSET, 8))
        client == Extract(box_data, CLIENT_OFFSET, 32)
        new == V6_rewrite(box_data, client,
                   Extract(box_data, FREELANCER_OFFSET, 32),
                   Extract(box_data, VERIFIER_OFFSET, 32),
                   V6_STATUS.REFUNDED)
        paid == Pay(s, "auto_refund", bounty_id, client, amount, 0)
    IN  IF nargs # 2 THEN Fail(s, "BadArgs")
        ELSE IF ~BoxExists(s, box_name) THEN Fail(s, "NotFound")
        ELSE IF status = V6_STATUS.CLAIMED THEN Fail(s, "InvalidState")
        ELSE IF status = V6_STATUS.REFUNDED THEN Fail(s, "InvalidState")
        ELSE IF status = V6_STATUS.REJECTED THEN Fail(s, "InvalidState")
        ELSE IF ~(now >= deadline) THEN Fail(s, "DeadlineNotExpired")
        ELSE IF ~(amount > 0) THEN Fail(s, "InvalidAmount")
        ELSE IF ~CanPay(s, amount, 0, payOk) THEN Fail(s, "TransferFailed")
        ELSE IF BoxPutWhole(paid, box_name, new) = StoreFault THEN Fail(s, "StoreError")
        ELSE Ok(WithBox(paid, box_name, new))

\* handle_deletion that asserts nothing.
V6_handle_deletion_Always(s) ==
    TRUE

\* handle_deletion: approves only while no bounty was ever created.
V6_handle_deletion(s) ==
    s.bounty_count = 0

\* approval_program for the calls that are not NoOp: whether it approves.
V6_approval_program(s, on_completion) ==
    CASE on_completion = "DeleteApplication" -> V6_handle_deletion(s)
      [] on_completion = "UpdateApplication" -> FALSE
      [] on_completion = "CloseOut" -> TRUE
      [] on_completion = "OptIn" -> TRUE

(***************************************************************************)
(* Escrow contract (algoease_bounty_escrow.py): no verifier, no deadline,  *)
(* no refund; a record is creator, freelancer, amount, status, description.*)
(***************************************************************************)
Escrow_STATUS ==
    [OPEN |-> 0, ACCEPTED |-> 1, SUBMITTED |-> 2, APPROVED |-> 3, CLAIMED |-> 4,
     REJECTED |-> 5]

Escrow_CREATOR_OFFSET == 0
Escrow_FREELANCER_OFFSET == 32
Escrow_AMOUNT_OFFSET == 64
Escrow_STATUS_OFFSET == 72
Escrow_TASK_DESC_OFFSET == 73

\* The rewrite every transition of the escrow contract does.
Escrow_rewrite(box_data, creator, freelancer, status) ==
    creator \o freelancer
        \o Extract(box_data, Escrow_AMOUNT_OFFSET, 8)
        \o status_to_bytes(status)
        \o Extract(box_data, Escrow_TASK_DESC_OFFSET, Len(box_data) - Escrow_TASK_DESC_OFFSET)

Escrow_create_bounty(s, sender, g, amountArg, task_desc) ==
    LET amount == Btoi(Itob(amountArg))
        bounty_id == s.bounty_count
        box_name == get_bounty_box_name(bounty_id)
        value == Addr(sender) \o BytesZero(32) \o Itob(amount)
                   \o status_to_bytes(Escrow_STATUS.OPEN) \o task_desc
        box == BoxPutWhole(s, box_name, value)
    IN  IF g.group_size # 2 THEN Fail(s, "InvalidFunding")
        ELSE IF g.group_index # 1 THEN Fail(s, "InvalidFunding")
        ELSE IF g.num_app_args # 3 THEN Fail(s, "BadArgs")
        ELSE IF g.gtxn0.type # "pay" THEN Fail(s, "InvalidFunding")
        ELSE IF g.gtxn0.sender # Addr(sender) THEN Fail(s, "InvalidFunding")
        ELSE IF g.gtxn0.receiver # EscrowAddr THEN Fail(s, "InvalidFunding")
        ELSE IF ~(amount > 0) THEN Fail(s, "InvalidFunding")
        ELSE IF g.gtxn0.amount # amount THEN Fail(s, "InvalidFunding")
        ELSE IF box = StoreFault THEN Fail(s, "StoreError")
        ELSE Ok([WithBox(s, box_name, box) EXCEPT
                    !.bounty_count = bounty_id + 1,
                    !.balance = s.balance + g.gtxn0.amount])

Escrow_accept_bounty(s, sender, nargs, bounty_id) ==
    LET box_name == get_bounty_box_name(bounty_id)
        box_data == s.boxes[box_name]
        status == Btoi(Extract(box_data, Escrow_STATUS_OFFSET, 1))
        creator == Extract(box_data, Escrow_CREATOR_OFFSET, 32)
        new == Escrow_rewrite(box_data, creator, Addr(sender), Escrow_STATUS.ACCEPTED)
    IN  IF nargs # 2 THEN Fail(s, "BadArgs")
        ELSE IF ~BoxExists(s, box_name) THEN Fail(s, "NotFound")
        ELSE IF status # Escrow_STATUS.OPEN THEN Fail(s, "InvalidState")
        ELSE IF Addr(sender) = ZERO_ADDR THEN Fail(s, "Unauthorized")
        ELSE IF Addr(sender) = creator THEN Fail(s, "SelfDealing")
        ELSE IF BoxPutWhole(s, box_name, new) = StoreFault THEN Fail(s, "StoreError")
        ELSE Ok(WithBox(s, box_name, new))

Escrow_submit_bounty(s, sender, nargs, bounty_id) ==
    LET box_name == get_bounty_box_name(bounty_id)
        box_data == s.boxes[box_name]
        status == Btoi(Extract(box_data, Escrow_STATUS_OFFSET, 1))
        freelancer == Extract(box_data, Escrow_FREELANCER_OFFSET, 32)
        new == Escrow_rewrite(box_data, Extract(box_data, Escrow_CREATOR_OFFSET, 32),
                              freelancer, Escrow_STATUS.SUBMITTED)
    IN  IF nargs # 2 THEN Fail(s, "BadArgs")
        ELSE IF ~BoxExists(s, box_name) THEN Fail(s, "NotFound")
        ELSE IF status # Escrow_STATUS.ACCEPTED THEN Fail(s, "InvalidState")
        ELSE IF Addr(sender) # freelancer THEN Fail(s, "Unauthorized")
        ELSE IF BoxPutWhole(s, box_name, new) = StoreFault THEN Fail(s, "StoreError")
        ELSE Ok(WithBox(s, box_name, new))

\* approve_bounty: the record goes to CLAIMED and the amount to the
\* freelancer in the same call.
\* approve_bounty recording APPROVED, as the module's header describes, while still paying.
Escrow_approve_bounty_WritesApproved(s, sender, nargs, bounty_id, payOk) ==
    LET box_name == get_bounty_box_name(bounty_id)
        box_data == s.boxes[box_name]
        status == Btoi(Extract(box_data, Escrow_STATUS_OFFSET, 1))
        creator == Extract(box_data, Escrow_CREATOR_OFFSET, 32)
        freelancer == Extract(box_data, Escrow_FREELANCER_OFFSET, 32)
        amount == Btoi(Extract(box_data, Escrow_AMOUNT_OFFSET, 8))
        new == Escrow_rewrite(box_data, creator, freelancer, Escrow_STATUS.APPROVED)
        written == WithBox(s, box_name, new)
    IN  IF nargs # 2 THEN Fail(s, "BadArgs")
        ELSE IF ~BoxExists(s, box_name) THEN Fail(s, "NotFound")
        ELSE IF status # Escrow_STATUS.SUBMITTED THEN Fail(s, "InvalidState")
        ELSE IF Addr(sender) # creator THEN Fail(s, "Unauthorized")
        ELSE IF ~(amount > 0) THEN Fail(s, "InvalidAmount")
        ELSE IF freelancer = ZERO_ADDR THEN Fail(s, "InvalidState")
        ELSE IF BoxPutWhole(s, box_name, new) = StoreFault THEN Fail(s, "StoreError")
        ELSE IF ~CanPay(written, amount, 0, payOk) THEN Fail(written, "TransferFailed")
        ELSE Ok(Pay(written, "approve", bounty_id, freelancer, amount, 0))

Escrow_approve_bounty(s, sender, nargs, bounty_id, payOk) ==
    LET box_name == get_bounty_box_name(bounty_id)
        box_data == s.boxes[box_name]
        status == Btoi(Extract(box_data, Escrow_STATUS_OFFSET, 1))
        creator == Extract(box_data, Escrow_CREATOR_OFFSET, 32)
        freelancer == Extract(box_data, Escrow_FREELANCER_OFFSET, 32)
        amount == Btoi(Extract(box_data, Escrow_AMOUNT_OFFSET, 8))
        new == Escrow_rewrite(box_data, creator, freelancer, Escrow_STATUS.CLAIMED)
        written == WithBox(s, box_name, new)
    IN  IF nargs # 2 THEN Fail(s, "BadArgs")
        ELSE IF ~BoxExists(s, box_name) THEN Fail(s, "NotFound")
        ELSE IF status # Escrow_STATUS.SUBMITTED THEN Fail(s, "InvalidState")
        ELSE IF Addr(sender) # creator THEN Fail(s, "Unauthorized")
        ELSE IF ~(amount > 0) THEN Fail(s, "InvalidAmount")
        ELSE IF freelancer = ZERO_ADDR THEN Fail(s, "InvalidState")
        ELSE IF BoxPutWhole(s, box_name, new) = StoreFault THEN Fail(s, "StoreError")
        ELSE IF ~CanPay(written, amount, 0, payOk) THEN Fail(written, "TransferFailed")
        ELSE Ok(Pay(written, "approve", bounty_id, freelancer, amount, 0))

\* reject_bounty accepting an ACCEPTED record as well as a SUBMITTED one.
Escrow_reject_bounty_FromAccepted(s, sender, nargs, bounty_id, payOk) ==
    LET box_name == get_bounty_box_name(bounty_id)
        box_data == s.boxes[box_name]
        status == Btoi(Extract(box_data, Escrow_STATUS_OFFSET, 1))
        creator == Extract(box_data, Escrow_CREATOR_OFFSET, 32)
        amount == Btoi(Extract(box_data, Escrow_AMOUNT_OFFSET, 8))
        new == Escrow_rewrite(box_data, creator,
                              Extract(box_data, Escrow_FREELANCER_OFFSET, 32),
                              Escrow_STATUS.REJECTED)
        written == WithBox(s, box_name, new)
    IN  IF nargs # 2 THEN Fail(s, "BadArgs")
        ELSE IF ~BoxExists(s, box_name) THEN Fail(s, "NotFound")
        ELSE IF status \notin {Escrow_STATUS.SUBMITTED, Escrow_STATUS.ACCEPTED} THEN Fail(s, "InvalidState")
        ELSE IF Addr(sender) # creator THEN Fail(s, "Unauthorized")
        ELSE IF ~(amount > 0) THEN Fail(s, "InvalidAmount")
        ELSE IF BoxPutWhole(s, box_name, new) = StoreFault THEN Fail(s, "StoreError")
        ELSE IF ~CanPay(written, amount, 0, payOk) THEN Fail(written, "TransferFailed")
        ELSE Ok(Pay(written, "reject", bounty_id, creator, amount, 0))

Escrow_reject_bounty(s, sender, nargs, bounty_id, payOk) ==
    LET box_name == get_bounty_box_name(bounty_id)
        box_data == s.boxes[box_name]
        status == Btoi(Extract(box_data, Escrow_STATUS_OFFSET, 1))
        creator == Extract(box_data, Escrow_CREATOR_OFFSET, 32)
        amount == Btoi(Extract(box_data, Escrow_AMOUNT_OFFSET, 8))
        new == Escrow_rewrite(box_data, creator,
                              Extract(box_data, Escrow_FREELANCER_OFFSET, 32),
                              Escrow_STATUS.REJECTED)
        written == WithBox(s, box_name, new)
    IN  IF nargs # 2 THEN Fail(s, "BadArgs")
        ELSE IF ~BoxExists(s, box_name) THEN Fail(s, "NotFound")
        ELSE IF status # Escrow_STATUS.SUBMITTED THEN Fail(s, "InvalidState")
        ELSE IF Addr(sender) # creator THEN Fail(s, "Unauthorized")
        ELSE IF ~(amount > 0) THEN Fail(s, "InvalidAmount")
        ELSE IF BoxPutWhole(s, box_name, new) = StoreFault THEN Fail(s, "StoreError")
        ELSE IF ~CanPay(written, amount, 0, payOk) THEN Fail(written, "TransferFailed")
        ELSE Ok(Pay(written, "reject", bounty_id, creator, amount, 0))

Escrow_claim_bounty(s, sender, nargs, bounty_id, payOk) ==
    LET box_name == get_bounty_box_name(bounty_id)
        box_data == s.boxes[box_name]
        status == Btoi(Extract(box_data, Escrow_STATUS_OFFSET, 1))
        freelancer == Extract(box_data, Escrow_FREELANCER_OFFSET, 32)
        amount == Btoi(Extract(box_data, Escrow_AMOUNT_OFFSET, 8))
        new == Escrow_rewrite(box_data, Extract(box_data, Escrow_CREATOR_OFFSET, 32),
                              freelancer, Escrow_STATUS.CLAIMED)
        written == WithBox(s, box_name, new)
    IN  IF nargs # 2 THEN Fail(s, "BadArgs")
        ELSE IF ~BoxExists(s, box_name) THEN Fail(s, "NotFound")
        ELSE IF status # Escrow_STATUS.APPROVED THEN Fail(s, "InvalidState")
        ELSE IF Addr(sender) # freelancer THEN Fail(s, "Unauthorized")
        ELSE IF ~(amount > 0) THEN Fail(s, "InvalidAmount")
        ELSE IF BoxPutWhole(s, box_name, new) = StoreFault THEN Fail(s, "StoreError")
        ELSE IF ~CanPay(written, amount, 0, payOk) THEN Fail(written, "TransferFailed")
        ELSE Ok(Pay(written, "claim", bounty_id, freelancer, amount, 0))

Escrow_handle_deletion(s) ==
    s.bounty_count = 0

Escrow_approval_program(s, on_completion) ==
    CASE on_completion = "DeleteApplication" -> Escrow_handle_deletion(s)
      [] on_completion = "UpdateApplication" -> FALSE
      [] on_completion = "CloseOut" -> TRUE
      [] on_completion = "OptIn" -> TRUE

(***************************************************************************)
(* The state machine.                                                      *)
(*   now : Global.latest_timestamp                                         *)
(*   app : the deployed application: contract name -> application state    *)
(***************************************************************************)
VARIABLES now, app

vars == <<now, app>>

Contracts == DOMAIN app

\* Amounts are counted in microAlgos; the model's deposits are multiples of
\* the fee claim_bounty's payment carries, so that a second deposit covers
\* the fee of the first one's claim.
AmountUnit == V6_CLAIM_FEE
Amounts == {k * AmountUnit : k \in 0..MaxAmount}
Times == 0..MaxTime
BountyIds == 0..MaxBounties
Descs == {<<>>, [i \in 1..MaxDescLen |-> 64 + i]}
OtherAmount(a) == IF a = AmountUnit THEN 0 ELSE AmountUnit

Init ==
    /\ now = 0
    /\ \E c \in {"Algopy", "V6"} : app = [x \in {c} |-> Genesis]

\* Method dispatch: the ARC4 router of the Algopy contract, handle_noop of V6
\* and of the escrow contract (whose create_bounty takes no deadline, one
\* argument fewer, and which has no refund methods).
\* Run_x is the method as it runs, Do_x the call as it is committed.
Run_create(c, s, sender, g, amountArg, deadline, desc, t) ==
    IF c = "Algopy" THEN Algopy_create_bounty(s, sender, g, deadline, desc, t)
    ELSE IF c = "Escrow"
    THEN Escrow_create_bounty(s, sender, [g EXCEPT !.num_app_args = @ - 1], amountArg, desc)
    ELSE V6_create_bounty(s, sender, g, amountArg, deadline, desc, t)

Do_create(c, s, sender, g, amountArg, deadline, desc, t) == AppCall(s, Run_create(c, s, sender, g, amountArg, deadline, desc, t))

Run_accept(c, s, sender, nargs, id, t) ==
    IF c = "Algopy" THEN Algopy_accept_bounty(s, sender, id, t)
    ELSE IF c = "Escrow" THEN Escrow_accept_bounty(s, sender, nargs, id)
    ELSE V6_accept_bounty(s, sender, nargs, id, t)

Do_accept(c, s, sender, nargs, id, t) == AppCall(s, Run_accept(c, s, sender, nargs, id, t))

Run_submit(c, s, sender, nargs, id) ==
    IF c = "Algopy" THEN Algopy_submit_bounty(s, sender, id)
    ELSE IF c = "Escrow" THEN Escrow_submit_bounty(s, sender, nargs, id)
    ELSE V6_submit_bounty(s, sender, nargs, id)

Do_submit(c, s, sender, nargs, id) == AppCall(s, Run_submit(c, s, sender, nargs, id))

\* approve_bounty issues an inner payment in the escrow contract only.
Run_approve_paying(c, s, sender, nargs, id, payOk) ==
    IF c = "Algopy" THEN Algopy_approve_bounty(s, sender, id)
    ELSE IF c = "Escrow" THEN Escrow_approve_bounty(s, sender, nargs, id, payOk)
    ELSE V6_approve_bounty(s, sender, nargs, id)

Run_approve(c, s, sender, nargs, id) == Run_approve_paying(c, s, sender, nargs, id, TRUE)

Do_approve(c, s, sender, nargs, id) == AppCall(s, Run_approve(c, s, sender, nargs, id))

Run_reject(c, s, sender, nargs, accounts, id, payOk) ==
    IF c = "Algopy" THEN Algopy_reject_bounty(s, sender, id, payOk)
    ELSE IF c = "Escrow" THEN Escrow_reject_bounty(s, sender, nargs, id, payOk)
    ELSE V6_reject_bounty(s, sender, nargs, accounts, id, payOk)

Do_reject(c, s, sender, nargs, accounts, id, payOk) == AppCall(s, Run_reject(c, s, sender, nargs, accounts, id, payOk))

Run_claim(c, s, sender, nargs, id, payOk) ==
    IF c = "Algopy" THEN Algopy_claim_bounty(s, sender, id, payOk)
    ELSE IF c = "Escrow" THEN Escrow_claim_bounty(s, sender, nargs, id, payOk)
    ELSE V6_claim_bounty(s, sender, nargs, id, payOk)

Do_claim(c, s, sender, nargs, id, payOk) == AppCall(s, Run_claim(c, s, sender, nargs, id, payOk))

Run_refund(c, s, sender, nargs, id, t, payOk) ==
    IF c = "Algopy" THEN Algopy_refund_bounty(s, sender, id, t, payOk)
    ELSE IF c = "Escrow" THEN Fail(s, "NoSuchMethod")
    ELSE V6_refund_bounty(s, sender, nargs, id, t, payOk)

Do_refund(c, s, sender, nargs, id, t, payOk) == AppCall(s, Run_refund(c, s, sender, nargs, id, t, payOk))

Run_auto_refund(c, s, sender, nargs, id, t, payOk) ==
    IF c = "Algopy" THEN Algopy_auto_refund(s, sender, id, t, payOk)
    ELSE IF c = "Escrow" THEN Fail(s, "NoSuchMethod")
    ELSE V6_auto_refund(s, sender, nargs, id, t, payOk)

Do_auto_refund(c, s, sender, nargs, id, t, payOk) == AppCall(s, Run_auto_refund(c, s, sender, nargs, id, t, payOk))

\* A call whose OnCompletion is not NoOp.  The Algopy contract declares no
\* bare method and no method allowing another action, so its router rejects
\* all of them.
OnCompletions == {"DeleteApplication", "UpdateApplication", "CloseOut", "OptIn"}

Approves(c, s, on_completion) ==
    IF c = "Algopy" THEN FALSE
    ELSE IF c = "Escrow" THEN Escrow_approval_program(s, on_completion)
    ELSE V6_approval_program(s, on_completion)

\* get_bounty_count and get_bounty_info are methods of the Algopy contract
\* only: handle_noop of the PyTeal contracts has no branch for them, and a
\* call that matches no branch fails.
Do_get_bounty_count(c, s) ==
    IF c = "Algopy" THEN Algopy_get_bounty_count(s)
    ELSE [err |-> "NoSuchMethod", ret |-> 0]

Do_get_bounty_info(c, s, id, lengthFirst, stringWraps) ==
    IF c = "Algopy" THEN Algopy_get_bounty_info(s, id, lengthFirst, stringWraps)
    ELSE [err |-> "NoSuchMethod", ret |-> <<>>]

(***************************************************************************)
(* The calls the environment makes.  A call on a bounty carries its sender,*)
(* its number of application arguments (2 when well formed), its accounts  *)
(* array, the bounty id and whether an inner payment would be accepted.    *)
(***************************************************************************)
Call(sender, nargs, accounts, id, payOk) ==
    [sender |-> sender, nargs |-> nargs, accounts |-> accounts, id |-> id, payOk |-> payOk]

\* Well-formed calls by every account on every id (one id has no record),
\* and one call with an argument too many.
PlainCalls ==
    {Call(a, 2, <<>>, id, TRUE) : a \in Accounts, id \in BountyIds}
        \cup {Call(1, 3, <<>>, 0, TRUE)}

\* accept_bounty is also tried by the zero address.
AcceptCalls == PlainCalls \cup {Call(0, 2, <<>>, id, TRUE) : id \in BountyIds}

\* Calls of the paying methods: the inner payment is accepted or refused.
PayCalls ==
    PlainCalls \cup {Call(a, 2, <<>>, id, FALSE) : a \in Accounts, id \in BountyIds}

\* reject_bounty reads the accounts array: empty, or naming an account.
RejectCalls ==
    PayCalls \cup {Call(a, 2, <<Addr(b)>>, id, TRUE) :
                    a \in Accounts, b \in 1..2, id \in BountyIds}
             \cup {Call(a, 2, <<Addr(1)>>, id, FALSE) : a \in Accounts, id \in BountyIds}

\* Addresses are only ever compared for equality, so the accounts that create
\* bounties and those named as verifiers are taken from the first accounts;
\* every other call is made by every account.
Clients == 1..NumClients
Verifiers == 1..NumVerifiers

\* A create call: the group's shape, the payment's amount, whether the
\* declared amount (V6's argument) is the paid one, the verifier, the
\* deadline and the description.
Create(sender, shape, payAmount, argIsPaid, verifier, deadline, desc) ==
    [sender |-> sender, shape |-> shape, payAmount |-> payAmount, argIsPaid |-> argIsPaid,
     verifier |-> verifier, deadline |-> deadline, desc |-> desc]

LongDesc == [i \in 1..MaxDescLen |-> 64 + i]

\* Well-presented creates with every amount (zero too), deadline (past too)
\* and description; then one create per other shape of the group, and two
\* whose declared amount is not the paid one (nothing paid, nothing declared).
Creates ==
    {Create(a, "ok", amt, TRUE, v, d, desc) :
        a \in Clients, amt \in Amounts, v \in Verifiers, d \in Times, desc \in Descs}
        \cup {Create(1, shape, AmountUnit, TRUE, 2, MaxTime, LongDesc) : shape \in Shapes}
        \cup {Create(1, "ok", amt, FALSE, 2, MaxTime, LongDesc) : amt \in {0, AmountUnit}}

AmountArg(k) == IF k.argIsPaid THEN k.payAmount ELSE OtherAmount(k.payAmount)

Tick ==
    /\ now < MaxTime
    /\ now' = now + 1
    /\ UNCHANGED app

create_bounty ==
    \E k \in Creates :
        /\ \A c \in Contracts : app[c].bounty_count < MaxBounties
        /\ app' = [c \in Contracts |->
                    Do_create(c, app[c], k.sender,
                              Group(k.shape, k.sender, k.payAmount, k.verifier),
                              AmountArg(k), k.deadline, k.desc, now).s]
        /\ UNCHANGED now

accept_bounty ==
    \E k \in AcceptCalls :
        /\ app' = [c \in Contracts |-> Do_accept(c, app[c], k.sender, k.nargs, k.id, now).s]
        /\ UNCHANGED now

submit_bounty ==
    \E k \in PlainCalls :
        /\ app' = [c \in Contracts |-> Do_submit(c, app[c], k.sender, k.nargs, k.id).s]
        /\ UNCHANGED now

approve_bounty ==
    \E k \in PayCalls :
        /\ app' = [c \in Contracts |->
                    AppCall(app[c], Run_approve_paying(c, app[c], k.sender, k.nargs, k.id,
                                                       k.payOk)).s]
        /\ UNCHANGED now

reject_bounty ==
    \E k \in RejectCalls :
        /\ app' = [c \in Contracts |->
                    Do_reject(c, app[c], k.sender, k.nargs, k.accounts, k.id, k.payOk).s]
        /\ UNCHANGED now

claim_bounty ==
    \E k \in PayCalls :
        /\ app' = [c \in Contracts |->
                    Do_claim(c, app[c], k.sender, k.nargs, k.id, k.payOk).s]
        /\ UNCHANGED now

refund_bounty ==
    \E k \in PayCalls :
        /\ app' = [c \in Contracts |->
                    Do_refund(c, app[c], k.sender, k.nargs, k.id, now, k.payOk).s]
        /\ UNCHANGED now

auto_refund ==
    \E k \in PayCalls :
        /\ app' = [c \in Contracts |->
                    Do_auto_refund(c, app[c], k.sender, k.nargs, k.id, now, k.payOk).s]
        /\ UNCHANGED now

\* A read: whatever it returns, the state stays as it is.
get_bounty_info ==
    \E id \in BountyIds : \E lengthFirst, stringWraps \in BOOLEAN :
        /\ \A c \in Contracts :
              Do_get_bounty_info(c, app[c], id, lengthFirst, stringWraps).err
                  \in {"OK", "NotFound", "ArithmeticError", "NoSuchMethod"}
        /\ UNCHANGED vars

\* A read of the counter.
get_bounty_count ==
    /\ \A c \in Contracts : Do_get_bounty_count(c, app[c]).err \in {"OK", "NoSuchMethod"}
    /\ UNCHANGED vars
\* A call with another OnCompletion: an approved DeleteApplication removes
\* the application, every other one leaves the state as it is.
on_completion_call ==
    \E oc \in OnCompletions :
        /\ app' = [c \in {x \in Contracts :
                             ~(oc = "DeleteApplication" /\ Approves(x, app[x], oc))}
                      |-> app[c]]
        /\ UNCHANGED now

Next ==
    \/ Tick
    \/ create_bounty
    \/ accept_bounty
    \/ submit_bounty
    \/ approve_bounty
    \/ reject_bounty
    \/ claim_bounty
    \/ refund_bounty
    \/ auto_refund
    \/ get_bounty_info
    \/ get_bounty_count
    \/ on_completion_call

Spec == Init /\ [][Next]_vars

\* The same, with time advancing up to the last deadline and auto_refund
\* called whenever a call of it can take effect.
FairSpec == Spec /\ WF_vars(Tick) /\ WF_vars(auto_refund)

\* The escrow contract after its creation, under the same calls.
EscrowInit ==
    /\ now = 0
    /\ app = [x \in {"Escrow"} |-> Genesis]

EscrowSpec == EscrowInit /\ [][Next]_vars

\* Either PyTeal application through its whole life.
PyTealInit ==
    /\ now = 0
    /\ \E c \in {"V6", "Escrow"} : app = [x \in {c} |-> Genesis]

PyTealSpec == PyTealInit /\ [][Next]_vars

\* The Algopy and the V6 application side by side: every call is made of
\* both, with the same caller, arguments and time.
LockstepInit ==
    /\ now = 0
    /\ app = [x \in {"Algopy", "V6"} |-> Genesis]

\* Side by side the two are followed over the life of LockstepBounties
\* bounties.
lockstep_create_bounty ==
    /\ \A c \in Contracts : app[c].bounty_count < LockstepBounties
    /\ create_bounty

LockstepNext ==
    \/ Tick
    \/ lockstep_create_bounty
    \/ accept_bounty
    \/ submit_bounty
    \/ approve_bounty
    \/ reject_bounty
    \/ claim_bounty
    \/ refund_bounty
    \/ auto_refund
    \/ get_bounty_info
    \/ get_bounty_count
    \/ on_completion_call

LockstepSpec == LockstepInit /\ [][LockstepNext]_vars

(***************************************************************************)
(* Reading the state: a bounty's box by id, its fields, and the outcome of *)
(* every call the environment can make in the current state.               *)
(***************************************************************************)
BoxName(c, id) == IF c = "Algopy" THEN Algopy_box_name(id) ELSE get_bounty_box_name(id)
HasRecord(c, s, id) == BoxName(c, id) \in DOMAIN s.boxes
BoxOf(c, s, id) == s.boxes[BoxName(c, id)]

StatusCodes(c) == IF c = "Algopy" THEN Algopy_STATUS ELSE V6_STATUS

\* The status of a record, by name, as the contract's methods read it: one
\* byte at the status offset.
StatusOf(c, s, id) ==
    LET code == Btoi(Extract(BoxOf(c, s, id), STATUS_OFFSET, 1))
    IN  IF \E n \in StatusNames : StatusCodes(c)[n] = code
        THEN CHOOSE n \in StatusNames : StatusCodes(c)[n] = code
        ELSE "INVALID"

ClientOf(c, s, id) == Extract(BoxOf(c, s, id), CLIENT_OFFSET, 32)
FreelancerOf(c, s, id) == Extract(BoxOf(c, s, id), FREELANCER_OFFSET, 32)
VerifierOf(c, s, id) == Extract(BoxOf(c, s, id), VERIFIER_OFFSET, 32)
AmountOf(c, s, id) == Btoi(Extract(BoxOf(c, s, id), AMOUNT_OFFSET, 8))
DeadlineOf(c, s, id) == Btoi(Extract(BoxOf(c, s, id), DEADLINE_OFFSET, 8))

Terminal == {"CLAIMED", "REJECTED", "REFUNDED"}
NonTerminal == {"OPEN", "ACCEPTED", "SUBMITTED", "APPROVED"}
PayingOps == {"reject", "claim", "refund", "auto_refund"}

\* The inner payments issued by calls on bounty id (positions in itxns).
TransfersOf(s, id) == {i \in DOMAIN s.itxns : s.itxns[i].bounty = id}

\* A call as the public surface makes it: the right number of arguments and,
\* for V6's reject_bounty, a non-empty accounts array.
WellFormed(op, k) == k.nargs = 2 /\ (op = "reject" => Len(k.accounts) >= 1)

\* The call k of method op, as it runs (RunCall) and as committed (DoCall).
RunCall(c, s, t, op, k) ==
    CASE op = "accept" -> Run_accept(c, s, k.sender, k.nargs, k.id, t)
      [] op = "submit" -> Run_submit(c, s, k.sender, k.nargs, k.id)
      [] op = "approve" -> Run_approve_paying(c, s, k.sender, k.nargs, k.id, k.payOk)
      [] op = "reject" -> Run_reject(c, s, k.sender, k.nargs, k.accounts, k.id, k.payOk)
      [] op = "claim" -> Run_claim(c, s, k.sender, k.nargs, k.id, k.payOk)
      [] op = "refund" -> Run_refund(c, s, k.sender, k.nargs, k.id, t, k.payOk)
      [] op = "auto_refund" -> Run_auto_refund(c, s, k.sender, k.nargs, k.id, t, k.payOk)

DoCall(c, s, t, op, k) == AppCall(s, RunCall(c, s, t, op, k))

\* The calls the environment makes of each method.
CallsOf(op) ==
    CASE op = "accept" -> AcceptCalls
      [] op \in {"submit", "approve"} -> PlainCalls
      [] op = "reject" -> RejectCalls
      [] OTHER -> PayCalls

BountyOps == {"accept", "submit", "approve", "reject", "claim", "refund", "auto_refund"}

\* A create call k, as it runs and as committed.
RunCreate(c, s, t, k) ==
    Run_create(c, s, k.sender, Group(k.shape, k.sender, k.payAmount, k.verifier),
               AmountArg(k), k.deadline, k.desc, t)

CreateResult(c, s, t, k) == AppCall(s, RunCreate(c, s, t, k))

(***************************************************************************)
(* C1.  For every bounty id, at most one of reject_bounty, claim_bounty,   *)
(* refund_bounty and auto_refund ever succeeds on that id: every success   *)
(* of one of them issues one inner payment tagged with the id, so no id    *)
(* ever has two.                                                           *)
(***************************************************************************)
C1_AtMostOnePayingCall ==
    \A c \in Contracts : \A id \in BountyIds :
        Cardinality(TransfersOf(app[c], id)) <= 1

(***************************************************************************)
(* C2.  The number of value transfers issued for a record is exactly 1 if  *)
(* its status is CLAIMED, REJECTED or REFUNDED and exactly 0 if its status *)
(* is OPEN, ACCEPTED, SUBMITTED or APPROVED.                               *)
(***************************************************************************)
C2_TransfersMatchStatus ==
    \A c \in Contracts : \A id \in BountyIds :
        HasRecord(c, app[c], id) =>
            Cardinality(TransfersOf(app[c], id)) =
                (IF StatusOf(c, app[c], id) \in Terminal THEN 1 ELSE 0)

(***************************************************************************)
(* C3.  Every successful operation changes a record's status only along    *)
(* the edges OPEN -> ACCEPTED (accept_bounty), ACCEPTED -> SUBMITTED       *)
(* (submit_bounty), SUBMITTED -> APPROVED (approve_bounty), APPROVED ->     *)
(* CLAIMED (claim_bounty), ACCEPTED or SUBMITTED -> REJECTED               *)
(* (reject_bounty) and OPEN, ACCEPTED, SUBMITTED or APPROVED -> REFUNDED   *)
(* (refund_bounty, auto_refund); a record created by create_bounty is OPEN;*)
(* no call deletes a record or moves it back to a status it has left.      *)
(***************************************************************************)
Edges(op) ==
    CASE op = "accept" -> {<<"OPEN", "ACCEPTED">>}
      [] op = "submit" -> {<<"ACCEPTED", "SUBMITTED">>}
      [] op = "approve" -> {<<"SUBMITTED", "APPROVED">>}
      [] op = "claim" -> {<<"APPROVED", "CLAIMED">>}
      [] op = "reject" -> {<<"ACCEPTED", "REJECTED">>, <<"SUBMITTED", "REJECTED">>}
      [] op \in {"refund", "auto_refund"} -> {<<from, "REFUNDED">> : from \in NonTerminal}
      [] OTHER -> {}

\* How far along the graph a status is: an edge never lowers it.
Rank(status) ==
    CASE status = "OPEN" -> 0
      [] status = "ACCEPTED" -> 1
      [] status = "SUBMITTED" -> 2
      [] status = "APPROVED" -> 3
      [] status \in Terminal -> 4
      [] OTHER -> -1

\* From state s of contract c, the call of op that ends in state s2 moved
\* every record along an edge of op or left its status alone, and a record
\* it added is OPEN and was added by create.
AlongEdges(c, s, s2, op) ==
    \/ s2 = s
    \/ \A id \in BountyIds :
          /\ HasRecord(c, s, id) =>
                /\ HasRecord(c, s2, id)
                /\ \/ StatusOf(c, s2, id) = StatusOf(c, s, id)
                   \/ <<StatusOf(c, s, id), StatusOf(c, s2, id)>> \in Edges(op)
                /\ Rank(StatusOf(c, s2, id)) >= Rank(StatusOf(c, s, id))
          /\ (~HasRecord(c, s, id) /\ HasRecord(c, s2, id)) =>
                /\ op = "create"
                /\ id = s.bounty_count
                /\ StatusOf(c, s2, id) = "OPEN"

C3_StatusFollowsEdges ==
    \A c \in Contracts :
        /\ \A id \in BountyIds :
              HasRecord(c, app[c], id) => StatusOf(c, app[c], id) \in StatusNames
        /\ \A op \in BountyOps : \A k \in CallsOf(op) :
              AlongEdges(c, app[c], DoCall(c, app[c], now, op, k).s, op)
        /\ \A k \in Creates :
              AlongEdges(c, app[c], CreateResult(c, app[c], now, k).s, "create")

\* A record has gone OPEN -> ACCEPTED -> SUBMITTED -> APPROVED -> CLAIMED.
C3_Witness ==
    \E c \in Contracts : \E id \in BountyIds :
        /\ HasRecord(c, app[c], id)
        /\ StatusOf(c, app[c], id) = "CLAIMED"

(***************************************************************************)
(* C4.  Once a record's status is CLAIMED, REJECTED or REFUNDED, every     *)
(* later accept_bounty, submit_bounty, approve_bounty, reject_bounty,      *)
(* claim_bounty, refund_bounty and auto_refund on it fails with            *)
(* InvalidState and leaves the whole state unchanged.                      *)
(***************************************************************************)
C4_TerminalIsFinal ==
    \A c \in Contracts : \A id \in BountyIds :
        (HasRecord(c, app[c], id) /\ StatusOf(c, app[c], id) \in Terminal) =>
            \A op \in BountyOps : \A k \in CallsOf(op) :
                (WellFormed(op, k) /\ k.id = id) =>
                    LET r == DoCall(c, app[c], now, op, k)
                    IN  r.err = "InvalidState" /\ r.s = app[c]

\* A rejected record, before its deadline, on which the client's refund and
\* the freelancer's claim are both refused.
C4_Witness ==
    \E c \in Contracts : \E id \in BountyIds : \E a, b \in Accounts :
        /\ HasRecord(c, app[c], id)
        /\ StatusOf(c, app[c], id) = "REJECTED"
        /\ now < DeadlineOf(c, app[c], id)
        /\ Addr(a) = ClientOf(c, app[c], id)
        /\ Addr(b) = FreelancerOf(c, app[c], id)
        /\ Do_refund(c, app[c], a, 2, id, now, TRUE).err = "InvalidState"
        /\ Do_claim(c, app[c], b, 2, id, TRUE).err = "InvalidState"

(***************************************************************************)
(* C5.  If the value transfer of reject_bounty, claim_bounty, refund_bounty*)
(* or auto_refund fails, the whole call fails with TransferFailed: the     *)
(* record keeps its prior status, nothing else changes, and the same call  *)
(* is still enabled (it succeeds once the transfer goes through).  V6 has  *)
(* not written the record when the transfer fails.                         *)
(***************************************************************************)
Refused(k) == [k EXCEPT !.payOk = FALSE]

C5_TransferFailureAborts ==
    \A c \in Contracts : \A op \in PayingOps : \A k \in CallsOf(op) :
        LET s == app[c]
            r == DoCall(c, s, now, op, k)
            r2 == DoCall(c, s, now, op, Refused(k))
        IN  /\ r.err = "TransferFailed" =>
                  /\ r.s = s
                  /\ c = "V6" => RunCall(c, s, now, op, k).s = s
            /\ (k.payOk /\ r.err = "OK") =>
                  /\ r2.err = "TransferFailed"
                  /\ r2.s = s
                  /\ StatusOf(c, r2.s, k.id) = StatusOf(c, s, k.id)
                  /\ DoCall(c, r2.s, now, op, k).err = "OK"

\* An approved record whose claim pays when the transfer goes through and
\* fails with TransferFailed when it does not.
C5_Witness ==
    \E c \in Contracts : \E k \in PayCalls :
        /\ k.payOk
        /\ HasRecord(c, app[c], k.id)
        /\ StatusOf(c, app[c], k.id) = "APPROVED"
        /\ DoCall(c, app[c], now, "claim", k).err = "OK"
        /\ DoCall(c, app[c], now, "claim", Refused(k)).err = "TransferFailed"

(***************************************************************************)
(* C6.  When a call fails a precondition check (existence, status,         *)
(* deadline, caller role, amount, funding, arguments), the method has      *)
(* written nothing by then: the state it stops in, and so the state after  *)
(* the call, is the state before it (records, counter, balance, transfers).*)
(***************************************************************************)
PreconditionErrors ==
    {"NotFound", "InvalidState", "DeadlineExpired", "DeadlineNotExpired",
     "Unauthorized", "SelfDealing", "InvalidAmount", "InvalidFunding",
     "DeadlineNotFuture", "BadArgs", "BadAccounts"}

C6_FailedCheckWritesNothing ==
    \A c \in Contracts :
        /\ \A op \in BountyOps : \A k \in CallsOf(op) :
              LET r == RunCall(c, app[c], now, op, k)
              IN  r.err \in PreconditionErrors =>
                      /\ r.s = app[c]
                      /\ AppCall(app[c], r).s = app[c]
        /\ \A k \in Creates :
              LET r == RunCreate(c, app[c], now, k)
              IN  r.err \in PreconditionErrors =>
                      /\ r.s = app[c]
                      /\ AppCall(app[c], r).s = app[c]

\* An open record on which the client's own accept fails with SelfDealing,
\* a stranger's refund with Unauthorized, and next to it a create whose
\* payment goes elsewhere fails with InvalidFunding.
C6_Witness ==
    \E c \in Contracts : \E id \in BountyIds : \E a, b \in Accounts :
        /\ HasRecord(c, app[c], id)
        /\ StatusOf(c, app[c], id) = "OPEN"
        /\ now < DeadlineOf(c, app[c], id)
        /\ Addr(a) = ClientOf(c, app[c], id)
        /\ Addr(b) # ClientOf(c, app[c], id)
        /\ Addr(b) # VerifierOf(c, app[c], id)
        /\ Run_accept(c, app[c], a, 2, id, now).err = "SelfDealing"
        /\ Run_refund(c, app[c], b, 2, id, now, TRUE).err = "Unauthorized"
        /\ RunCreate(c, app[c], now,
                     Create(1, "wrongReceiver", AmountUnit, TRUE, 2, MaxTime, LongDesc)).err
              = "InvalidFunding"

Deposit(k) == Group(k.shape, k.sender, k.payAmount, k.verifier).gtxn0.amount

C8_AmountIsDeposit ==
    \A c \in Contracts :
        LET s == app[c]
        IN  /\ \A id \in BountyIds : HasRecord(c, s, id) => AmountOf(c, s, id) > 0
            /\ \A k \in Creates :
                  LET r == CreateResult(c, s, now, k)
                  IN  /\ r.err = "OK" =>
                            /\ Deposit(k) > 0
                            /\ HasRecord(c, r.s, s.bounty_count)
                            /\ AmountOf(c, r.s, s.bounty_count) = Deposit(k)
                            /\ r.s.balance = s.balance + Deposit(k)
                      /\ (c = "V6" /\ AmountArg(k) # Deposit(k)) => r.err = "InvalidFunding"
            /\ \A op \in BountyOps : \A k \in CallsOf(op) :
                  LET r == DoCall(c, s, now, op, k)
                  IN  r.s # s =>
                          \A id \in BountyIds :
                              HasRecord(c, s, id) => AmountOf(c, r.s, id) = AmountOf(c, s, id)

\* A record holding its deposit, in a state where a create that declares an
\* amount it does not pay is refused.
C8_Witness ==
    \E c \in Contracts : \E id \in BountyIds :
        /\ HasRecord(c, app[c], id)
        /\ AmountOf(c, app[c], id) = AmountUnit
        /\ app[c].balance >= AmountUnit
        /\ c = "V6"
        /\ CreateResult(c, app[c], now,
                        Create(1, "ok", 0, FALSE, 2, MaxTime, LongDesc)).err = "InvalidFunding"

(***************************************************************************)
(* C9.  claim_bounty on a record whose status is not APPROVED fails with   *)
(* InvalidState; on an APPROVED record, called by anyone but the record's  *)
(* freelancer, it fails with Unauthorized; in both cases the state is      *)
(* unchanged and no payment is issued.                                     *)
(***************************************************************************)
C9_ClaimGuards ==
    \A c \in Contracts : \A k \in PayCalls :
        LET s == app[c]
            r == DoCall(c, s, now, "claim", k)
        IN  (WellFormed("claim", k) /\ HasRecord(c, s, k.id)) =>
                /\ StatusOf(c, s, k.id) # "APPROVED" =>
                      r.err = "InvalidState" /\ r.s = s
                /\ (StatusOf(c, s, k.id) = "APPROVED"
                        /\ Addr(k.sender) # FreelancerOf(c, s, k.id)) =>
                      r.err = "Unauthorized" /\ r.s = s

\* An approved record the account could pay, claimed by its client.
C9_Witness ==
    \E c \in Contracts : \E id \in BountyIds : \E a \in Accounts :
        /\ HasRecord(c, app[c], id)
        /\ StatusOf(c, app[c], id) = "APPROVED"
        /\ Addr(a) = ClientOf(c, app[c], id)
        /\ Addr(a) # FreelancerOf(c, app[c], id)
        /\ CanPay(app[c], AmountOf(c, app[c], id), V6_CLAIM_FEE, TRUE)
        /\ Do_claim(c, app[c], a, 2, id, TRUE).err = "Unauthorized"

(***************************************************************************)
(* C10.  On a newly created record with client, verifier, amount and a     *)
(* deadline still ahead: accept_bounty by a worker other than the client,  *)
(* submit_bounty by the worker, approve_bounty by the client or the        *)
(* verifier and claim_bounty by the worker all succeed (the last one when  *)
(* its transfer goes through); the record ends CLAIMED, exactly one        *)
(* payment, of amount to the worker, has been issued for it, and the       *)
(* counter is unchanged.                                                   *)
(***************************************************************************)
C10_HappyPath ==
    \A c \in Contracts : \A id \in BountyIds : \A worker, approver \in Accounts :
        LET s == app[c]
            a1 == Do_accept(c, s, worker, 2, id, now)
            a2 == Do_submit(c, a1.s, worker, 2, id)
            a3 == Do_approve(c, a2.s, approver, 2, id)
            a4 == Do_claim(c, a3.s, worker, 2, id, TRUE)
        IN  (/\ HasRecord(c, s, id)
             /\ StatusOf(c, s, id) = "OPEN"
             /\ FreelancerOf(c, s, id) = ZERO_ADDR
             /\ TransfersOf(s, id) = {}
             /\ now < DeadlineOf(c, s, id)
             /\ Addr(worker) # ClientOf(c, s, id)
             /\ Addr(approver) \in {ClientOf(c, s, id), VerifierOf(c, s, id)})
                => /\ a1.err = "OK" /\ StatusOf(c, a1.s, id) = "ACCEPTED"
                   /\ a2.err = "OK" /\ StatusOf(c, a2.s, id) = "SUBMITTED"
                   /\ a3.err = "OK" /\ StatusOf(c, a3.s, id) = "APPROVED"
                   /\ a4.err \in {"OK", "TransferFailed"}
                   /\ a4.err = "OK" =>
                         /\ StatusOf(c, a4.s, id) = "CLAIMED"
                         /\ Cardinality(TransfersOf(a4.s, id)) = 1
                         /\ \A i \in TransfersOf(a4.s, id) :
                               /\ a4.s.itxns[i].receiver = Addr(worker)
                               /\ a4.s.itxns[i].amount = AmountOf(c, s, id)
                         /\ a4.s.bounty_count = s.bounty_count

(***************************************************************************)
(* C11.  approve_bounty succeeds only when the record's status is          *)
(* SUBMITTED and the caller is the stored client or the stored verifier;   *)
(* on success the status is APPROVED, no payment is issued and the balance *)
(* of the application account is unchanged; the freelancer, when it is     *)
(* neither the client nor the verifier, never approves.                    *)
(***************************************************************************)
C11_ApproveGuardsAndEffect ==
    \A c \in Contracts : \A k \in PlainCalls :
        LET s == app[c]
            r == DoCall(c, s, now, "approve", k)
        IN  /\ r.err = "OK" =>
                  /\ HasRecord(c, s, k.id)
                  /\ StatusOf(c, s, k.id) = "SUBMITTED"
                  /\ Addr(k.sender) \in {ClientOf(c, s, k.id), VerifierOf(c, s, k.id)}
                  /\ StatusOf(c, r.s, k.id) = "APPROVED"
                  /\ r.s.itxns = s.itxns
                  /\ r.s.balance = s.balance
            /\ (/\ HasRecord(c, s, k.id)
                /\ Addr(k.sender) = FreelancerOf(c, s, k.id)
                /\ Addr(k.sender) \notin {ClientOf(c, s, k.id), VerifierOf(c, s, k.id)})
                  => r.err # "OK"

\* A submitted record that its client can approve and its freelancer cannot.
C11_Witness ==
    \E c \in Contracts : \E id \in BountyIds : \E a, b \in Accounts :
        /\ HasRecord(c, app[c], id)
        /\ StatusOf(c, app[c], id) = "SUBMITTED"
        /\ Addr(a) = ClientOf(c, app[c], id)
        /\ Addr(b) = FreelancerOf(c, app[c], id)
        /\ Do_approve(c, app[c], a, 2, id).err = "OK"
        /\ Do_approve(c, app[c], b, 2, id).err = "Unauthorized"

PaidOnce(s, s2, id, receiver, amount) ==
    /\ Len(s2.itxns) = Len(s.itxns) + 1
    /\ SubSeq(s2.itxns, 1, Len(s.itxns)) = s.itxns
    /\ s2.itxns[Len(s2.itxns)].bounty = id
    /\ s2.itxns[Len(s2.itxns)].receiver = receiver
    /\ s2.itxns[Len(s2.itxns)].amount = amount
    /\ s2.balance = s.balance - amount

(***************************************************************************)
(* C13.  refund_bounty succeeds only when the record's status is OPEN,     *)
(* ACCEPTED, SUBMITTED or APPROVED, the time is strictly before the        *)
(* deadline and the caller is the stored client or verifier; it then pays  *)
(* exactly amount to the stored client and sets the status REFUNDED.  On a *)
(* record in one of those statuses, at or after the deadline, it fails     *)
(* with DeadlineExpired for every caller, the client included.             *)
(***************************************************************************)
C13_ManualRefund ==
    \A c \in Contracts : \A k \in PayCalls :
        LET s == app[c]
            r == DoCall(c, s, now, "refund", k)
        IN  /\ r.err = "OK" =>
                  /\ HasRecord(c, s, k.id)
                  /\ StatusOf(c, s, k.id) \in NonTerminal
                  /\ now < DeadlineOf(c, s, k.id)
                  /\ Addr(k.sender) \in {ClientOf(c, s, k.id), VerifierOf(c, s, k.id)}
                  /\ PaidOnce(s, r.s, k.id, ClientOf(c, s, k.id), AmountOf(c, s, k.id))
                  /\ StatusOf(c, r.s, k.id) = "REFUNDED"
            /\ (/\ WellFormed("refund", k)
                /\ HasRecord(c, s, k.id)
                /\ StatusOf(c, s, k.id) \in NonTerminal
                /\ now >= DeadlineOf(c, s, k.id))
                  => r.err = "DeadlineExpired"

(***************************************************************************)
(* C14.  On a record in OPEN, ACCEPTED, SUBMITTED or APPROVED, auto_refund *)
(* called strictly before the deadline fails with DeadlineNotExpired for   *)
(* every caller; called at or after the deadline it succeeds for every     *)
(* caller (when the payment goes through), pays exactly amount to the      *)
(* stored client and sets the status REFUNDED.                             *)
(***************************************************************************)
C14_AutoRefund ==
    \A c \in Contracts : \A k \in PayCalls :
        LET s == app[c]
            r == DoCall(c, s, now, "auto_refund", k)
        IN  (/\ WellFormed("auto_refund", k)
             /\ HasRecord(c, s, k.id)
             /\ StatusOf(c, s, k.id) \in NonTerminal)
                => /\ now < DeadlineOf(c, s, k.id) => r.err = "DeadlineNotExpired"
                   /\ (/\ now >= DeadlineOf(c, s, k.id)
                       /\ CanPay(s, AmountOf(c, s, k.id), 0, k.payOk))
                         => /\ r.err = "OK"
                            /\ PaidOnce(s, r.s, k.id, ClientOf(c, s, k.id), AmountOf(c, s, k.id))
                            /\ StatusOf(c, r.s, k.id) = "REFUNDED"

(***************************************************************************)
(* C15 (as stated).  For every existing record, whatever its status and    *)
(* whether or not its deadline has passed, accept_bounty called by the     *)
(* record's stored client fails with SelfDealing and leaves the record     *)
(* unchanged.                                                              *)
(***************************************************************************)
C15_ClientAcceptIsSelfDealing ==
    \A c \in Contracts : \A k \in AcceptCalls :
        (/\ WellFormed("accept", k)
         /\ HasRecord(c, app[c], k.id)
         /\ Addr(k.sender) = ClientOf(c, app[c], k.id))
            => /\ DoCall(c, app[c], now, "accept", k).err = "SelfDealing"
               /\ DoCall(c, app[c], now, "accept", k).s = app[c]

(***************************************************************************)
(* C15 (amended).  For every existing record, accept_bounty called by the  *)
(* record's stored client fails and leaves the record unchanged: with      *)
(* InvalidState when the status is not OPEN, with DeadlineExpired when the *)
(* status is OPEN and the time is at or after the deadline, and with       *)
(* SelfDealing when the status is OPEN and the time is before the deadline.*)
(***************************************************************************)
C15_ClientAcceptAlwaysFails ==
    \A c \in Contracts : \A k \in AcceptCalls :
        LET s == app[c]
            r == DoCall(c, s, now, "accept", k)
        IN  (/\ WellFormed("accept", k)
             /\ HasRecord(c, s, k.id)
             /\ Addr(k.sender) = ClientOf(c, s, k.id))
                => /\ r.s = s
                   /\ r.err = (IF StatusOf(c, s, k.id) # "OPEN" THEN "InvalidState"
                               ELSE IF now >= DeadlineOf(c, s, k.id) THEN "DeadlineExpired"
                               ELSE "SelfDealing")

\* An open record in time, whose client's accept is SelfDealing, beside an
\* accepted record, whose client's accept is InvalidState.
C15_Witness ==
    \E c \in Contracts : \E id, id2 \in BountyIds : \E a \in Accounts :
        /\ HasRecord(c, app[c], id)
        /\ StatusOf(c, app[c], id) = "OPEN"
        /\ now < DeadlineOf(c, app[c], id)
        /\ Addr(a) = ClientOf(c, app[c], id)
        /\ Do_accept(c, app[c], a, 2, id, now).err = "SelfDealing"
        /\ HasRecord(c, app[c], id2)
        /\ StatusOf(c, app[c], id2) = "ACCEPTED"
        /\ Addr(a) = ClientOf(c, app[c], id2)
        /\ Do_accept(c, app[c], a, 2, id2, now).err = "InvalidState"

(***************************************************************************)
(* C16.  accept_bounty on an OPEN record fails with DeadlineExpired        *)
(* whenever the time is at or after the record's deadline, for every       *)
(* caller, and the record stays OPEN with its freelancer unset; it         *)
(* succeeds, setting freelancer = caller and status = ACCEPTED, only when  *)
(* the time is strictly before the deadline and the caller is neither the  *)
(* zero address nor the client.                                            *)
(***************************************************************************)
C16_AcceptDeadlineAndEffect ==
    \A c \in Contracts : \A k \in AcceptCalls :
        LET s == app[c]
            r == DoCall(c, s, now, "accept", k)
        IN  (/\ WellFormed("accept", k)
             /\ HasRecord(c, s, k.id)
             /\ StatusOf(c, s, k.id) = "OPEN")
                => /\ now >= DeadlineOf(c, s, k.id) =>
                         /\ r.err = "DeadlineExpired"
                         /\ StatusOf(c, r.s, k.id) = "OPEN"
                         /\ FreelancerOf(c, r.s, k.id) = ZERO_ADDR
                   /\ r.err = "OK" =>
                         /\ now < DeadlineOf(c, s, k.id)
                         /\ Addr(k.sender) # ZERO_ADDR
                         /\ Addr(k.sender) # ClientOf(c, s, k.id)
                         /\ FreelancerOf(c, r.s, k.id) = Addr(k.sender)
                         /\ StatusOf(c, r.s, k.id) = "ACCEPTED"

(***************************************************************************)
(* C17.  submit_bounty succeeds only when the record's status is ACCEPTED  *)
(* and the caller is the stored freelancer; it then sets the status        *)
(* SUBMITTED and moves no funds; on an ACCEPTED record a call by anyone    *)
(* else (client, verifier, any other account) fails with Unauthorized; the *)
(* same call made again after a success fails with InvalidState.           *)
(***************************************************************************)
C17_SubmitGuardsAndEffect ==
    \A c \in Contracts : \A k \in PlainCalls :
        LET s == app[c]
            r == DoCall(c, s, now, "submit", k)
        IN  /\ r.err = "OK" =>
                  /\ HasRecord(c, s, k.id)
                  /\ StatusOf(c, s, k.id) = "ACCEPTED"
                  /\ Addr(k.sender) = FreelancerOf(c, s, k.id)
                  /\ StatusOf(c, r.s, k.id) = "SUBMITTED"
                  /\ r.s.itxns = s.itxns
                  /\ r.s.balance = s.balance
                  /\ DoCall(c, r.s, now, "submit", k).err = "InvalidState"
            /\ (/\ WellFormed("submit", k)
                /\ HasRecord(c, s, k.id)
                /\ StatusOf(c, s, k.id) = "ACCEPTED"
                /\ Addr(k.sender) # FreelancerOf(c, s, k.id))
                  => r.err = "Unauthorized" /\ r.s = s

\* An accepted record: its freelancer's submit goes through, its client's
\* submit is Unauthorized.
C17_Witness ==
    \E c \in Contracts : \E id \in BountyIds : \E a, b \in Accounts :
        /\ HasRecord(c, app[c], id)
        /\ StatusOf(c, app[c], id) = "ACCEPTED"
        /\ Addr(a) = ClientOf(c, app[c], id)
        /\ Addr(b) = FreelancerOf(c, app[c], id)
        /\ Do_submit(c, app[c], b, 2, id).err = "OK"
        /\ Do_submit(c, app[c], a, 2, id).err = "Unauthorized"

(***************************************************************************)
(* C18.  For an id with no record, every call of accept_bounty,            *)
(* submit_bounty, approve_bounty, reject_bounty, claim_bounty,             *)
(* refund_bounty, auto_refund and get_bounty_info fails with NotFound,     *)
(* whatever the caller, the time and the other arguments of the call: the  *)
(* existence check comes first.                                            *)
(***************************************************************************)
C18_NotFoundFirst ==
    \A c \in Contracts : \A id \in BountyIds :
        ~HasRecord(c, app[c], id) =>
            /\ \A op \in BountyOps : \A k \in CallsOf(op) :
                  k.id = id => DoCall(c, app[c], now, op, k).err = "NotFound"
            /\ c = "Algopy" =>
                  \A lengthFirst, stringWraps \in BOOLEAN :
                      Do_get_bounty_info(c, app[c], id, lengthFirst, stringWraps).err
                          = "NotFound"

(***************************************************************************)
(* C19.  Right after a successful create_bounty(verifier, deadline,        *)
(* description) by caller c funding amount a, get_bounty_info on the new   *)
(* id returns client = c, freelancer = zero address, the same verifier,    *)
(* amount = a, the same deadline, status = OPEN and the description        *)
(* supplied, for every description.                                        *)
(***************************************************************************)
C19_InfoAfterCreate ==
    \A c \in Contracts : \A k \in Creates : \A lengthFirst, stringWraps \in BOOLEAN :
        LET s == app[c]
            r == CreateResult(c, s, now, k)
            info == Do_get_bounty_info(c, r.s, s.bounty_count, lengthFirst, stringWraps)
        IN  (c = "Algopy" /\ r.err = "OK") =>
                /\ info.err = "OK"
                /\ info.ret.client = Addr(k.sender)
                /\ info.ret.freelancer = ZERO_ADDR
                /\ info.ret.verifier = Addr(k.verifier)
                /\ info.ret.amount = Deposit(k)
                /\ info.ret.deadline = k.deadline
                /\ info.ret.status = Algopy_STATUS.OPEN
                /\ info.ret.task_description = Arc4StringBytes(k.desc)

(***************************************************************************)
(* C20.  create_bounty succeeds only as the second transaction of a group  *)
(* of exactly two whose first transaction is a payment sent by the caller  *)
(* to the application's address; a create_bounty that fails creates no     *)
(* record and leaves the counter unchanged.                                *)
(***************************************************************************)
C20_CreateNeedsDeposit ==
    \A c \in Contracts : \A k \in Creates :
        LET s == app[c]
            g == Group(k.shape, k.sender, k.payAmount, k.verifier)
            r == CreateResult(c, s, now, k)
        IN  /\ r.err = "OK" =>
                  /\ g.group_size = 2
                  /\ g.group_index = 1
                  /\ g.gtxn0.type = "pay"
                  /\ g.gtxn0.sender = Addr(k.sender)
                  /\ g.gtxn0.receiver = EscrowAddr
            /\ r.err # "OK" =>
                  /\ r.s.bounty_count = s.bounty_count
                  /\ DOMAIN r.s.boxes = DOMAIN s.boxes
                  /\ r.s = s
            /\ k.shape \in {"alone", "three", "first", "wrongReceiver", "wrongSender",
                            "notPayment"} => r.err = "InvalidFunding"

\* A state in which a properly grouped create succeeds while the same
\* create with its payment sent elsewhere or by someone else is refused.
C20_Witness ==
    \E c \in Contracts :
        /\ app[c].bounty_count = 1
        /\ CreateResult(c, app[c], now,
                        Create(1, "ok", AmountUnit, TRUE, 2, MaxTime, LongDesc)).err = "OK"
        /\ CreateResult(c, app[c], now,
                        Create(1, "wrongReceiver", AmountUnit, TRUE, 2, MaxTime, LongDesc)).err
              = "InvalidFunding"
        /\ CreateResult(c, app[c], now,
                        Create(1, "wrongSender", AmountUnit, TRUE, 2, MaxTime, LongDesc)).err
              = "InvalidFunding"

(***************************************************************************)
(* C21.  create_bounty succeeds only with a deadline strictly greater than *)
(* the current time, which the new record stores; with valid funding and a *)
(* deadline at or before the current time it fails with DeadlineNotFuture; *)
(* with invalid funding and such a deadline it fails with InvalidFunding,  *)
(* the funding checks coming first.                                        *)
(***************************************************************************)
\* The funding of create call k is as required: the payment precedes the
\* call in a group of two, from the caller to the application, of a positive
\* amount (which is the amount declared, where the contract takes one).
FundingValid(c, k) ==
    /\ k.shape \notin {"alone", "three", "first", "wrongReceiver", "wrongSender", "notPayment"}
    /\ Deposit(k) > 0
    /\ c = "V6" => k.argIsPaid

C21_DeadlineInFuture ==
    \A c \in Contracts : \A k \in Creates :
        LET s == app[c]
            r == CreateResult(c, s, now, k)
        IN  /\ r.err = "OK" =>
                  /\ k.deadline > now
                  /\ DeadlineOf(c, r.s, s.bounty_count) = k.deadline
                  /\ DeadlineOf(c, r.s, s.bounty_count) > now
            /\ (k.shape = "ok" /\ FundingValid(c, k) /\ k.deadline <= now) =>
                  r.err = "DeadlineNotFuture"
            /\ (k.shape \notin {"noVerifier", "badArgs"} /\ ~FundingValid(c, k)
                    /\ k.deadline <= now) =>
                  r.err = "InvalidFunding"

\* At time 1: a funded create with deadline 1 is refused for its deadline,
\* an unfunded one with deadline 1 for its funding, and a funded one with
\* deadline 2 goes through.
C21_Witness ==
    \E c \in Contracts :
        /\ now = 1
        /\ CreateResult(c, app[c], now,
                        Create(1, "ok", AmountUnit, TRUE, 1, 1, LongDesc)).err
              = "DeadlineNotFuture"
        /\ CreateResult(c, app[c], now,
                        Create(1, "ok", 0, TRUE, 1, 1, LongDesc)).err = "InvalidFunding"
        /\ CreateResult(c, app[c], now,
                        Create(1, "ok", AmountUnit, TRUE, 1, 2, LongDesc)).err = "OK"

(***************************************************************************)
(* C22.  The bounty counter is 0 at genesis and is the number of records   *)
(* created so far: a successful create_bounty increases it by exactly 1,   *)
(* every failed call and every other operation leaves it as it is (so it   *)
(* never decreases), and get_bounty_count succeeds and returns it.         *)
(***************************************************************************)
C22_CounterCountsCreates ==
    \A c \in Contracts :
        LET s == app[c]
        IN  /\ Genesis.bounty_count = 0
            /\ s.bounty_count = Cardinality(DOMAIN s.boxes)
            /\ \A k \in Creates :
                  LET r == CreateResult(c, s, now, k)
                  IN  r.s.bounty_count = IF r.err = "OK" THEN s.bounty_count + 1
                                         ELSE s.bounty_count
            /\ \A op \in BountyOps : \A k \in CallsOf(op) :
                  DoCall(c, s, now, op, k).s.bounty_count = s.bounty_count
            /\ c = "Algopy" =>
                  Do_get_bounty_count(c, s) = [err |-> "OK", ret |-> s.bounty_count]

\* Two creates have succeeded, the counter reads 2, and in this state a
\* create is refused and another operation succeeds.
C22_Witness ==
    \E c \in Contracts :
        /\ c = "Algopy"
        /\ app[c].bounty_count = 2
        /\ Do_get_bounty_count(c, app[c]).ret = 2
        /\ \E k \in Creates : CreateResult(c, app[c], now, k).err # "OK"
        /\ \E op \in BountyOps : \E k \in CallsOf(op) :
              DoCall(c, app[c], now, op, k).err = "OK"

(***************************************************************************)
(* C23.  In every reachable state a record exists for id i exactly when    *)
(* i is below the counter, and there is no other box; a successful         *)
(* create_bounty makes its record under the id the counter had, where no   *)
(* record was, and leaves every record that existed as it was; so no two   *)
(* successful creates get the same id.                                     *)
(***************************************************************************)
C23_FreshIds ==
    \A c \in Contracts :
        LET s == app[c]
        IN  /\ \A id \in BountyIds : HasRecord(c, s, id) <=> id < s.bounty_count
            /\ DOMAIN s.boxes = {BoxName(c, id) : id \in 0..(s.bounty_count - 1)}
            /\ \A k \in Creates :
                  LET r == CreateResult(c, s, now, k)
                  IN  r.err = "OK" =>
                          /\ ~HasRecord(c, s, s.bounty_count)
                          /\ HasRecord(c, r.s, s.bounty_count)
                          /\ r.s.bounty_count > s.bounty_count
                          /\ DOMAIN r.s.boxes = DOMAIN s.boxes \cup {BoxName(c, s.bounty_count)}
                          /\ \A name \in DOMAIN s.boxes : r.s.boxes[name] = s.boxes[name]

\* A record exists under id 0 and another create succeeds beside it.
C23_Witness ==
    \E c \in Contracts :
        /\ app[c].bounty_count = 1
        /\ HasRecord(c, app[c], 0)
        /\ \E k \in Creates :
              /\ CreateResult(c, app[c], now, k).err = "OK"
              /\ HasRecord(c, CreateResult(c, app[c], now, k).s, 1)

(***************************************************************************)
(* C24.  Under every operation on an existing record its client, verifier, *)
(* amount, deadline and task_description stay as create wrote them; the    *)
(* freelancer changes only in an accept_bounty on a record that is OPEN    *)
(* with no freelancer and becomes ACCEPTED.                                *)
(***************************************************************************)
\* The stored task description: the bytes of the box from TASK_DESC_OFFSET.
DescOf(c, s, id) ==
    LET box == BoxOf(c, s, id)
    IN  Extract(box, TASK_DESC_OFFSET, Len(box) - TASK_DESC_OFFSET)

CreatedFieldsKept(c, s, s2, id) ==
    /\ HasRecord(c, s2, id)
    /\ ClientOf(c, s2, id) = ClientOf(c, s, id)
    /\ VerifierOf(c, s2, id) = VerifierOf(c, s, id)
    /\ AmountOf(c, s2, id) = AmountOf(c, s, id)
    /\ DeadlineOf(c, s2, id) = DeadlineOf(c, s, id)
    /\ DescOf(c, s2, id) = DescOf(c, s, id)

C24_FieldsImmutable ==
    \A c \in Contracts :
        LET s == app[c]
        IN  /\ \A op \in BountyOps : \A k \in CallsOf(op) :
                  LET r == DoCall(c, s, now, op, k)
                  IN  r.s # s =>
                        \A id \in BountyIds : HasRecord(c, s, id) =>
                            /\ CreatedFieldsKept(c, s, r.s, id)
                            /\ FreelancerOf(c, r.s, id) # FreelancerOf(c, s, id) =>
                                  /\ op = "accept"
                                  /\ k.id = id
                                  /\ StatusOf(c, s, id) = "OPEN"
                                  /\ FreelancerOf(c, s, id) = ZERO_ADDR
                                  /\ StatusOf(c, r.s, id) = "ACCEPTED"
            /\ \A k \in Creates :
                  LET r == CreateResult(c, s, now, k)
                  IN  r.s # s =>
                        \A id \in BountyIds : HasRecord(c, s, id) =>
                            /\ CreatedFieldsKept(c, s, r.s, id)
                            /\ FreelancerOf(c, r.s, id) = FreelancerOf(c, s, id)

(***************************************************************************)
(* C25.  An operation on bounty id i leaves every other record as it is,   *)
(* and two operations on different ids commute: run in either order from   *)
(* the same state, each has the same outcome (success or the same failure) *)
(* and the final records, counter and transfers are the same.  A create    *)
(* commutes in the same way with an operation on an existing record.       *)
(***************************************************************************)
\* The inner payments issued for bounty id, in order.
PaymentsOf(s, id) == SelectSeq(s.itxns, LAMBDA x : x.bounty = id)

SameFinal(a, b) ==
    /\ a.boxes = b.boxes
    /\ a.bounty_count = b.bounty_count
    /\ \A id \in BountyIds : PaymentsOf(a, id) = PaymentsOf(b, id)

OthersUntouched(c, s, s2, id) ==
    \A j \in BountyIds \ {id} :
        /\ HasRecord(c, s2, j) <=> HasRecord(c, s, j)
        /\ HasRecord(c, s, j) => BoxOf(c, s2, j) = BoxOf(c, s, j)

\* Calls k1 of op1 and k2 of op2 from state s, in both orders.
Commute(c, s, op1, k1, op2, k2) ==
    LET a1 == DoCall(c, s, now, op1, k1)
        a2 == DoCall(c, a1.s, now, op2, k2)
        b2 == DoCall(c, s, now, op2, k2)
        b1 == DoCall(c, b2.s, now, op1, k1)
    IN  /\ a1.err = b1.err
        /\ a2.err = b2.err
        /\ SameFinal(a2.s, b1.s)

\* Create k1 and call k2 of op2 from state s, in both orders.
CommuteCreate(c, s, k1, op2, k2) ==
    LET a1 == CreateResult(c, s, now, k1)
        a2 == DoCall(c, a1.s, now, op2, k2)
        b2 == DoCall(c, s, now, op2, k2)
        b1 == CreateResult(c, b2.s, now, k1)
    IN  /\ a1.err = b1.err
        /\ a2.err = b2.err
        /\ SameFinal(a2.s, b1.s)

C25_DifferentIdsCommute ==
    \A c \in Contracts :
        LET s == app[c]
        IN  /\ \A op \in BountyOps : \A k \in CallsOf(op) :
                  LET r == DoCall(c, s, now, op, k)
                  IN  r.s # s => OthersUntouched(c, s, r.s, k.id)
            /\ \A op1, op2 \in BountyOps :
                  \A k1 \in CallsOf(op1) : \A k2 \in CallsOf(op2) :
                      (/\ k1.id < k2.id
                       /\ HasRecord(c, s, k1.id) /\ HasRecord(c, s, k2.id)
                       /\ WellFormed(op1, k1) /\ WellFormed(op2, k2)
                       /\ k1.payOk /\ k2.payOk)
                          => Commute(c, s, op1, k1, op2, k2)
            /\ \A k1 \in Creates : \A op2 \in BountyOps : \A k2 \in CallsOf(op2) :
                      (/\ s.bounty_count < MaxBounties
                       /\ k1.shape = "ok" /\ k1.desc = LongDesc
                       /\ HasRecord(c, s, k2.id)
                       /\ WellFormed(op2, k2) /\ k2.payOk)
                          => CommuteCreate(c, s, k1, op2, k2)

(***************************************************************************)
(* C26.  Every successful reject_bounty, claim_bounty, refund_bounty and   *)
(* auto_refund issues one inner payment of the record's amount with fee 0  *)
(* and debits the escrow by exactly that amount; no other operation on a   *)
(* bounty debits the escrow, and no inner payment ever issued carries a    *)
(* fee.                                                                    *)
(***************************************************************************)
C26_EscrowPaysNoFee ==
    \A c \in Contracts :
        LET s == app[c]
        IN  /\ \A i \in DOMAIN s.itxns : s.itxns[i].fee = 0
            /\ \A op \in BountyOps : \A k \in CallsOf(op) :
                  LET r == DoCall(c, s, now, op, k)
                  IN  r.s # s =>
                        IF op \in PayingOps
                        THEN /\ Len(r.s.itxns) = Len(s.itxns) + 1
                             /\ r.s.itxns[Len(r.s.itxns)].amount = AmountOf(c, s, k.id)
                             /\ r.s.itxns[Len(r.s.itxns)].fee = 0
                             /\ r.s.balance = s.balance - AmountOf(c, s, k.id)
                        ELSE /\ r.s.itxns = s.itxns
                             /\ r.s.balance = s.balance

(***************************************************************************)
(* C27.  In the escrow contract an approve_bounty by the creator on a      *)
(* SUBMITTED record leaves the record APPROVED and the funds in escrow (no *)
(* inner payment, the balance as it was); every payment to a freelancer is *)
(* issued by a claim_bounty.                                               *)
(***************************************************************************)
\* The fields of an escrow record, as the escrow contract's methods read them.
Escrow_StatusOf(s, id) ==
    Btoi(Extract(s.boxes[get_bounty_box_name(id)], Escrow_STATUS_OFFSET, 1))
Escrow_CreatorOf(s, id) ==
    Extract(s.boxes[get_bounty_box_name(id)], Escrow_CREATOR_OFFSET, 32)
Escrow_FreelancerOf(s, id) ==
    Extract(s.boxes[get_bounty_box_name(id)], Escrow_FREELANCER_OFFSET, 32)
Escrow_AmountOf(s, id) ==
    Btoi(Extract(s.boxes[get_bounty_box_name(id)], Escrow_AMOUNT_OFFSET, 8))

C27_EscrowApproveThenClaim ==
    \A c \in Contracts \cap {"Escrow"} :
        LET s == app[c]
        IN  /\ \A k \in PayCalls :
                  LET r == DoCall(c, s, now, "approve", k)
                  IN  (/\ BoxExists(s, get_bounty_box_name(k.id))
                       /\ Escrow_StatusOf(s, k.id) = Escrow_STATUS.SUBMITTED
                       /\ Addr(k.sender) = Escrow_CreatorOf(s, k.id)
                       /\ r.err = "OK")
                          => /\ Escrow_StatusOf(r.s, k.id) = Escrow_STATUS.APPROVED
                             /\ r.s.balance = s.balance
                             /\ r.s.itxns = s.itxns
            /\ \A i \in DOMAIN s.itxns :
                  s.itxns[i].receiver = Escrow_FreelancerOf(s, s.itxns[i].bounty)
                      => s.itxns[i].op = "claim"

(***************************************************************************)
(* C28.  In the V6 and escrow contracts a DeleteApplication call is        *)
(* approved exactly while the counter is 0 and an UpdateApplication call   *)
(* never; no call decreases the counter; so in every state with a record   *)
(* or with funds in escrow both are rejected, and stay rejected.           *)
(***************************************************************************)
C28_NoDeleteNoUpdate ==
    \A c \in Contracts \cap {"V6", "Escrow"} :
        LET s == app[c]
        IN  /\ Approves(c, s, "DeleteApplication") <=> s.bounty_count = 0
            /\ ~Approves(c, s, "UpdateApplication")
            /\ (s.boxes # <<>> \/ s.balance > 0) =>
                  /\ s.bounty_count > 0
                  /\ ~Approves(c, s, "DeleteApplication")
            /\ \A k \in Creates : CreateResult(c, s, now, k).s.bounty_count >= s.bounty_count
            /\ \A op \in BountyOps : \A k \in CallsOf(op) :
                  DoCall(c, s, now, op, k).s.bounty_count >= s.bounty_count

\* The application holds a record and its deposit, and refuses to be
\* deleted or updated.
C28_Witness ==
    \E c \in Contracts \cap {"V6", "Escrow"} :
        /\ app[c].bounty_count >= 1
        /\ app[c].balance > 0
        /\ ~Approves(c, app[c], "DeleteApplication")
        /\ ~Approves(c, app[c], "UpdateApplication")

(***************************************************************************)
(* C29.  Run side by side under the same calls, the Algopy and the V6      *)
(* contract stay in corresponding states (the same counter, the same       *)
(* transfers by recipient and amount, and for every id the same client,    *)
(* freelancer, verifier, amount, deadline, description and, by name, the   *)
(* same status), and every call succeeds in one exactly when it succeeds   *)
(* in the other.                                                           *)
(***************************************************************************)
\* The description a record holds: the Algopy contract stores it behind a
\* two-byte length, V6 as the argument's bytes.
DescriptionOf(c, s, id) ==
    IF c = "Algopy"
    THEN Extract(DescOf(c, s, id), 2, Len(DescOf(c, s, id)) - 2)
    ELSE DescOf(c, s, id)

SameRecord(a, v, id) ==
    /\ HasRecord("Algopy", a, id) <=> HasRecord("V6", v, id)
    /\ HasRecord("Algopy", a, id) =>
          /\ ClientOf("Algopy", a, id) = ClientOf("V6", v, id)
          /\ FreelancerOf("Algopy", a, id) = FreelancerOf("V6", v, id)
          /\ VerifierOf("Algopy", a, id) = VerifierOf("V6", v, id)
          /\ AmountOf("Algopy", a, id) = AmountOf("V6", v, id)
          /\ DeadlineOf("Algopy", a, id) = DeadlineOf("V6", v, id)
          /\ StatusOf("Algopy", a, id) = StatusOf("V6", v, id)
          /\ DescriptionOf("Algopy", a, id) = DescriptionOf("V6", v, id)

SameTransfers(a, v) ==
    /\ Len(a.itxns) = Len(v.itxns)
    /\ \A i \in DOMAIN a.itxns :
          /\ a.itxns[i].receiver = v.itxns[i].receiver
          /\ a.itxns[i].amount = v.itxns[i].amount

Corresponding(a, v) ==
    /\ a.bounty_count = v.bounty_count
    /\ \A id \in BountyIds : SameRecord(a, v, id)
    /\ SameTransfers(a, v)

C29_AlgopyAndV6Agree ==
    Contracts = {"Algopy", "V6"} =>
        LET a == app["Algopy"]
            v == app["V6"]
        IN  /\ Corresponding(a, v)
            /\ \A k \in Creates :
                  (k.shape = "ok" /\ k.argIsPaid) =>
                      (CreateResult("Algopy", a, now, k).err = "OK"
                          <=> CreateResult("V6", v, now, k).err = "OK")
            /\ \A op \in BountyOps : \A k \in CallsOf(op) :
                  WellFormed(op, k) =>
                      (DoCall("Algopy", a, now, op, k).err = "OK"
                          <=> DoCall("V6", v, now, op, k).err = "OK")

(***************************************************************************)
(* C30.  In the Algopy contract, after every successful create, accept,    *)
(* submit, approve, reject, claim, refund and auto_refund the byte at      *)
(* offset 112 of the record is the status code the operation moves to, the *)
(* record has the length it was created with, 113 plus the description     *)
(* bytes, and the bytes from offset 113 are those create wrote.            *)
(***************************************************************************)
TargetStatus(op) ==
    CASE op = "accept" -> "ACCEPTED"
      [] op = "submit" -> "SUBMITTED"
      [] op = "approve" -> "APPROVED"
      [] op = "reject" -> "REJECTED"
      [] op = "claim" -> "CLAIMED"
      [] op \in {"refund", "auto_refund"} -> "REFUNDED"

C30_AlgopyStatusByte ==
    \A c \in Contracts \cap {"Algopy"} :
        LET s == app[c]
        IN  /\ \A k \in Creates :
                  LET r == CreateResult(c, s, now, k)
                      box == BoxOf(c, r.s, s.bounty_count)
                  IN  r.err = "OK" =>
                          /\ Extract(box, STATUS_OFFSET, 1) = <<Algopy_STATUS.OPEN>>
                          /\ Len(box) = TASK_DESC_OFFSET + Len(Arc4StringBytes(k.desc))
                          /\ DescOf(c, r.s, s.bounty_count) = Arc4StringBytes(k.desc)
            /\ \A op \in BountyOps : \A k \in CallsOf(op) :
                  LET r == DoCall(c, s, now, op, k)
                  IN  r.err = "OK" =>
                          /\ Extract(BoxOf(c, r.s, k.id), STATUS_OFFSET, 1)
                                = <<Algopy_STATUS[TargetStatus(op)]>>
                          /\ Len(BoxOf(c, r.s, k.id)) = Len(BoxOf(c, s, k.id))
                          /\ DescOf(c, r.s, k.id) = DescOf(c, s, k.id)

(***************************************************************************)
(* C31.  With the escrow account receiving only the deposits of successful *)
(* creates, in every reachable state the escrow balance is the sum of the  *)
(* amounts of the records that are OPEN, ACCEPTED, SUBMITTED or APPROVED;  *)
(* so the payouts never exceed the deposits, and no payout that passes its *)
(* checks and is accepted fails for want of funds.                         *)
(***************************************************************************)
RECURSIVE SumAmounts(_, _, _)
\* The sum of the amounts of the records of the ids in `ids`.
SumAmounts(c, s, ids) ==
    IF ids = {} THEN 0
    ELSE LET id == CHOOSE x \in ids : TRUE
         IN  AmountOf(c, s, id) + SumAmounts(c, s, ids \ {id})

\* The amounts the records still hold in escrow.
Escrowed(c, s) ==
    SumAmounts(c, s, {id \in BountyIds :
                        HasRecord(c, s, id) /\ StatusOf(c, s, id) \in NonTerminal})

RECURSIVE SumPaid(_)
SumPaid(itxns) ==
    IF itxns = <<>> THEN 0 ELSE Head(itxns).amount + Head(itxns).fee + SumPaid(Tail(itxns))

C31_BalanceCoversRecords ==
    \A c \in Contracts :
        LET s == app[c]
        IN  /\ s.balance = Escrowed(c, s)
            /\ SumPaid(s.itxns) <= SumAmounts(c, s, {id \in BountyIds : HasRecord(c, s, id)})
            /\ \A op \in PayingOps : \A k \in CallsOf(op) :
                  k.payOk => DoCall(c, s, now, op, k).err # "TransferFailed"

(***************************************************************************)
(* C32.  For every record in OPEN, ACCEPTED, SUBMITTED or APPROVED and     *)
(* every time t, exactly one of the deadline gates passes: before the      *)
(* deadline refund_bounty by the client or verifier passes and auto_refund *)
(* fails with DeadlineNotExpired; from the deadline on auto_refund passes  *)
(* for every caller and refund_bounty fails with DeadlineExpired.  At      *)
(* t = deadline auto_refund passes while refund_bounty and accept_bounty   *)
(* are rejected.  A call that passes its gate succeeds when its payment    *)
(* goes through.                                                           *)
(***************************************************************************)
\* The outcome of a paying call whose checks have all passed.
Settles(s, amount, k) == IF CanPay(s, amount, 0, k.payOk) THEN "OK" ELSE "TransferFailed"

Unsettled(c, id) ==
    /\ c \in Contracts
    /\ HasRecord(c, app[c], id)
    /\ StatusOf(c, app[c], id) \in NonTerminal

\* No record is left in OPEN, ACCEPTED, SUBMITTED or APPROVED.
AllSettled == \A c \in Contracts : \A id \in BountyIds : ~Unsettled(c, id)

AutoRefundOpen ==
    \A c \in Contracts : \A k \in PayCalls :
        (/\ WellFormed("auto_refund", k)
         /\ Unsettled(c, k.id)
         /\ now >= DeadlineOf(c, app[c], k.id))
            => DoCall(c, app[c], now, "auto_refund", k).err \in {"OK", "TransferFailed"}

C33_NoFundsLockedForever ==
    /\ []AutoRefundOpen
    /\ []<>AllSettled

(***************************************************************************)
(* C34.  On an APPROVED record, at every time, claim_bounty by the         *)
(* freelancer passes its checks, and so does a refund: refund_bounty by    *)
(* the client or verifier before the deadline, auto_refund by anyone from  *)
(* the deadline on.  Each succeeds when its payment goes through; after    *)
(* either has succeeded the other fails with InvalidState, so never both   *)
(* pay.                                                                    *)
(***************************************************************************)
\* The refund method whose deadline gate is open at time t.
RefundAt(c, s, id, t) == IF t < DeadlineOf(c, s, id) THEN "refund" ELSE "auto_refund"

C34_ClaimRacesRefund ==
    \A c \in Contracts : \A id \in BountyIds :
        LET s == app[c]
        IN  (HasRecord(c, s, id) /\ StatusOf(c, s, id) = "APPROVED") =>
              \A t \in Times : \A a, b \in Accounts : \A payOk \in BOOLEAN :
                LET k1 == Call(a, 2, <<>>, id, payOk)
                    k2 == Call(b, 2, <<>>, id, payOk)
                    refundOp == RefundAt(c, s, id, t)
                    claim == DoCall(c, s, t, "claim", k1)
                    refund == DoCall(c, s, t, refundOp, k2)
                IN  (/\ Addr(a) = FreelancerOf(c, s, id)
                     /\ refundOp = "refund" =>
                            Addr(b) \in {ClientOf(c, s, id), VerifierOf(c, s, id)})
                        => /\ claim.err = Settles(s, AmountOf(c, s, id), k1)
                           /\ refund.err = Settles(s, AmountOf(c, s, id), k2)
                           /\ claim.err = "OK" =>
                                 /\ DoCall(c, claim.s, t, refundOp, k2).err = "InvalidState"
                                 /\ Cardinality(TransfersOf(claim.s, id)) = 1
                           /\ refund.err = "OK" =>
                                 /\ DoCall(c, refund.s, t, "claim", k1).err = "InvalidState"
                                 /\ Cardinality(TransfersOf(refund.s, id)) = 1

(***************************************************************************)
(* C35.  Every record whose status is ACCEPTED, SUBMITTED, APPROVED,       *)
(* CLAIMED or REJECTED has a freelancer that is not the zero address and   *)
(* is not the record's client.  A successful accept_bounty stores its      *)
(* sender as freelancer, no other operation changes the field, and a       *)
(* successful claim_bounty pays the stored freelancer: never the client,   *)
(* never the zero address.                                                 *)
(***************************************************************************)
Worked == {"ACCEPTED", "SUBMITTED", "APPROVED", "CLAIMED", "REJECTED"}

C35_FreelancerIsAcceptor ==
    \A c \in Contracts :
        LET s == app[c]
        IN  /\ \A id \in BountyIds :
                  (HasRecord(c, s, id) /\ StatusOf(c, s, id) \in Worked) =>
                      /\ FreelancerOf(c, s, id) # ZERO_ADDR
                      /\ FreelancerOf(c, s, id) # ClientOf(c, s, id)
            /\ \A k \in AcceptCalls :
                  LET r == DoCall(c, s, now, "accept", k)
                  IN  r.err = "OK" =>
                          /\ FreelancerOf(c, r.s, k.id) = Addr(k.sender)
                          /\ Addr(k.sender) \notin {ZERO_ADDR, ClientOf(c, s, k.id)}
            /\ \A op \in BountyOps \ {"accept"} : \A k \in CallsOf(op) :
                  LET r == DoCall(c, s, now, op, k)
                  IN  r.err = "OK" =>
                          FreelancerOf(c, r.s, k.id) = FreelancerOf(c, s, k.id)
            /\ \A k \in PayCalls :
                  LET r == DoCall(c, s, now, "claim", k)
                  IN  r.err = "OK" =>
                          /\ Len(r.s.itxns) = Len(s.itxns) + 1
                          /\ r.s.itxns[Len(r.s.itxns)].receiver = FreelancerOf(c, s, k.id)
                          /\ r.s.itxns[Len(r.s.itxns)].receiver
                                 \notin {ZERO_ADDR, ClientOf(c, s, k.id)}

\* A claim has paid the freelancer of a CLAIMED record.
C35_Witness ==
    \E c \in Contracts : \E id \in BountyIds :
        LET s == app[c]
        IN  /\ HasRecord(c, s, id)
            /\ StatusOf(c, s, id) = "CLAIMED"
            /\ \E i \in TransfersOf(s, id) :
                  /\ s.itxns[i].op = "claim"
                  /\ s.itxns[i].receiver = FreelancerOf(c, s, id)

(***************************************************************************)
(* C36.  As stated: the freelancer of a record differs from the record's   *)
(* verifier as well as from its client, so the caller of a successful      *)
(* approve_bounty is never paid by the claim_bounty that follows.          *)
(***************************************************************************)
\* The receiver of the payment a successful call has just issued.
LastReceiver(s) == s.itxns[Len(s.itxns)].receiver

\* The approver Addr(k.sender) is not paid by a claim that follows the
\* approval r of call k.
ApproverNotPaid(c, r, t, k) ==
    \A k2 \in PayCalls :
        LET r2 == DoCall(c, r.s, t, "claim", k2)
        IN  (k2.id = k.id /\ r2.err = "OK") => LastReceiver(r2.s) # Addr(k.sender)

C36_ApproverNeverPaid ==
    \A c \in Contracts :
        LET s == app[c]
        IN  /\ \A id \in BountyIds :
                  (HasRecord(c, s, id) /\ FreelancerOf(c, s, id) # ZERO_ADDR) =>
                      FreelancerOf(c, s, id) \notin {ClientOf(c, s, id), VerifierOf(c, s, id)}
            /\ \A k \in PlainCalls :
                  LET r == DoCall(c, s, now, "approve", k)
                  IN  r.err = "OK" => ApproverNotPaid(c, r, now, k)

(***************************************************************************)
(* C36, amended.  accept_bounty compares its sender with the client only:  *)
(* the freelancer of a record differs from the record's client, and a      *)
(* verifier other than the client may accept.  So the client, when it is   *)
(* the caller of a successful approve_bounty, is never paid by the         *)
(* claim_bounty that follows; accept_bounty by the verifier of an OPEN     *)
(* record before its deadline fails only when the verifier is the client.  *)
(***************************************************************************)
C36_ClientApproverNeverPaid ==
    \A c \in Contracts :
        LET s == app[c]
        IN  /\ \A id \in BountyIds :
                  (HasRecord(c, s, id) /\ FreelancerOf(c, s, id) # ZERO_ADDR) =>
                      FreelancerOf(c, s, id) # ClientOf(c, s, id)
            /\ \A k \in PlainCalls :
                  LET r == DoCall(c, s, now, "approve", k)
                  IN  (r.err = "OK" /\ Addr(k.sender) = ClientOf(c, s, k.id)) =>
                          ApproverNotPaid(c, r, now, k)
            /\ \A k \in PlainCalls :
                  (/\ HasRecord(c, s, k.id)
                   /\ k.nargs = 2
                   /\ StatusOf(c, s, k.id) = "OPEN"
                   /\ now < DeadlineOf(c, s, k.id)
                   /\ Addr(k.sender) = VerifierOf(c, s, k.id))
                      => (DoCall(c, s, now, "accept", k).err = "OK"
                              <=> VerifierOf(c, s, k.id) # ClientOf(c, s, k.id))

\* The client approves a SUBMITTED record and the claim that follows pays
\* the freelancer.
C36_Witness ==
    \E c \in Contracts : \E k \in PlainCalls : \E k2 \in PayCalls :
        LET s == app[c]
            r == DoCall(c, s, now, "approve", k)
            r2 == DoCall(c, r.s, now, "claim", k2)
        IN  /\ HasRecord(c, s, k.id)
            /\ Addr(k.sender) = ClientOf(c, s, k.id)
            /\ r.err = "OK"
            /\ k2.id = k.id
            /\ r2.err = "OK"
            /\ LastReceiver(r2.s) = FreelancerOf(c, s, k.id)

(***************************************************************************)
(* C37.  In the escrow contract at most one transfer is ever issued per    *)
(* bounty, and only by approve_bounty (the amount, to the freelancer) or   *)
(* by reject_bounty (the amount, to the creator), each on a SUBMITTED      *)
(* record and called by its creator.  No operation writes status APPROVED, *)
(* so claim_bounty never succeeds.                                         *)
(***************************************************************************)
\* The calls the environment makes of each method of the escrow contract:
\* approve_bounty issues a payment there.
Escrow_CallsOf(op) == IF op = "approve" THEN PayCalls ELSE CallsOf(op)

RECURSIVE Escrow_Held(_, _)
Escrow_Held(s, ids) ==
    IF ids = {} THEN 0
    ELSE LET id == CHOOSE x \in ids : TRUE
             held == IF /\ BoxExists(s, get_bounty_box_name(id))
                        /\ Escrow_StatusOf(s, id) \notin
                               {Escrow_STATUS.CLAIMED, Escrow_STATUS.REJECTED}
                     THEN Escrow_AmountOf(s, id) ELSE 0
         IN  held + Escrow_Held(s, ids \ {id})

C38_EscrowDepositStuck ==
    \A c \in Contracts \cap {"Escrow"} :
        LET s == app[c]
        IN  /\ s.balance = Escrow_Held(s, BountyIds)
            /\ \A op \in {"refund", "auto_refund"} : \A k \in PayCalls : \A t \in Times :
                  DoCall(c, s, t, op, k).err = "NoSuchMethod"
            /\ \A id \in BountyIds :
                  (/\ BoxExists(s, get_bounty_box_name(id))
                   /\ Escrow_StatusOf(s, id) \in {Escrow_STATUS.OPEN, Escrow_STATUS.ACCEPTED})
                  => /\ TransfersOf(s, id) = {}
                     /\ \A k \in Creates :
                           LET r == CreateResult(c, s, now, k)
                           IN  r.s.boxes[get_bounty_box_name(id)] = s.boxes[get_bounty_box_name(id)]
                     /\ \A op \in BountyOps : \A k \in Escrow_CallsOf(op) : \A t \in Times :
                           LET r == DoCall(c, s, t, op, k)
                               box == s.boxes[get_bounty_box_name(id)]
                           IN  /\ k.id = id =>
                                     /\ r.s.itxns = s.itxns
                                     /\ r.s.balance = s.balance
                                     /\ Addr(k.sender) = Escrow_CreatorOf(s, id) => r.err # "OK"
                               /\ r.s.boxes[get_bounty_box_name(id)] # box =>
                                     /\ k.id = id
                                     /\ \/ /\ op = "accept"
                                           /\ Escrow_StatusOf(s, id) = Escrow_STATUS.OPEN
                                           /\ Escrow_StatusOf(r.s, id) = Escrow_STATUS.ACCEPTED
                                        \/ /\ op = "submit"
                                           /\ Escrow_StatusOf(s, id) = Escrow_STATUS.ACCEPTED
                                           /\ Addr(k.sender) = Escrow_FreelancerOf(s, id)
                                           /\ Escrow_StatusOf(r.s, id) = Escrow_STATUS.SUBMITTED

\* At the last time of the model one bounty is still OPEN and another still
\* ACCEPTED, their deposits in escrow, and the creator's reject_bounty fails
\* on both.
C38_Witness ==
    \E c \in Contracts \cap {"Escrow"} : \E i, j \in BountyIds :
        LET s == app[c]
        IN  /\ now = MaxTime
            /\ BoxExists(s, get_bounty_box_name(i))
            /\ BoxExists(s, get_bounty_box_name(j))
            /\ Escrow_StatusOf(s, i) = Escrow_STATUS.OPEN
            /\ Escrow_StatusOf(s, j) = Escrow_STATUS.ACCEPTED
            /\ s.balance = Escrow_AmountOf(s, i) + Escrow_AmountOf(s, j)
            /\ s.balance > 0
            /\ \A id \in {i, j} : \A a \in Accounts :
                  Addr(a) = Escrow_CreatorOf(s, id) =>
                      DoCall(c, s, now, "reject", Call(a, 2, <<>>, id, TRUE)).err = "InvalidState"

(***************************************************************************)
(* C39.  In the V6 and escrow contracts the status byte round-trips: for   *)
(* each of the seven status codes, status_to_bytes gives one byte whose    *)
(* Btoi is the code, and rewriting any record with that code by the        *)
(* Concat(Extract ...) every operation uses gives a record of the same     *)
(* length that reads the code at the status offset and has the same fixed  *)
(* fields and the same description, an empty description included.  Every  *)
(* successful call leaves its record's length and description as they were.*)
(***************************************************************************)
\* The seven status codes (the escrow contract names six of them).
SevenCodes == {V6_STATUS[n] : n \in StatusNames}

\* The record layout of each PyTeal contract and its whole-record rewrite
\* with a new status, every other field taken from the old record.
PyTeal_STATUS_OFFSET(c) == IF c = "Escrow" THEN Escrow_STATUS_OFFSET ELSE STATUS_OFFSET
PyTeal_TASK_DESC_OFFSET(c) == IF c = "Escrow" THEN Escrow_TASK_DESC_OFFSET ELSE TASK_DESC_OFFSET
PyTeal_desc(c, box) ==
    Extract(box, PyTeal_TASK_DESC_OFFSET(c), Len(box) - PyTeal_TASK_DESC_OFFSET(c))
PyTeal_restatus(c, box, code) ==
    IF c = "Escrow"
    THEN Escrow_rewrite(box, Extract(box, Escrow_CREATOR_OFFSET, 32),
                        Extract(box, Escrow_FREELANCER_OFFSET, 32), code)
    ELSE V6_rewrite(box, Extract(box, CLIENT_OFFSET, 32), Extract(box, FREELANCER_OFFSET, 32),
                    Extract(box, VERIFIER_OFFSET, 32), code)

C39_StatusByteRoundTrips ==
    \A c \in Contracts \cap {"V6", "Escrow"} :
        LET s == app[c]
            off == PyTeal_STATUS_OFFSET(c)
        IN  /\ \A code \in SevenCodes :
                  /\ Len(status_to_bytes(code)) = 1
                  /\ Btoi(status_to_bytes(code)) = code
            /\ \A name \in DOMAIN s.boxes : \A code \in SevenCodes :
                  LET box == s.boxes[name]
                      new == PyTeal_restatus(c, box, code)
                  IN  /\ Len(new) = Len(box)
                      /\ Btoi(Extract(new, off, 1)) = code
                      /\ Extract(new, 0, off) = Extract(box, 0, off)
                      /\ PyTeal_desc(c, new) = PyTeal_desc(c, box)
            /\ \A op \in BountyOps : \A k \in Escrow_CallsOf(op) :
                  LET r == DoCall(c, s, now, op, k)
                      name == get_bounty_box_name(k.id)
                  IN  r.err = "OK" =>
                          /\ BoxExists(r.s, name)
                          /\ Len(r.s.boxes[name]) = Len(s.boxes[name])
                          /\ PyTeal_desc(c, r.s.boxes[name]) = PyTeal_desc(c, s.boxes[name])
                          /\ Btoi(Extract(r.s.boxes[name], off, 1)) \in SevenCodes

\* A record with an empty description has been rewritten and reads a status
\* other than OPEN; another keeps its full description after a rewrite.
C39_Witness ==
    \E c \in Contracts \cap {"V6", "Escrow"} : \E n1, n2 \in DOMAIN app[c].boxes :
        LET b1 == app[c].boxes[n1]
            b2 == app[c].boxes[n2]
        IN  /\ Len(b1) = PyTeal_TASK_DESC_OFFSET(c)
            /\ Btoi(Extract(b1, PyTeal_STATUS_OFFSET(c), 1)) > 1
            /\ PyTeal_desc(c, b2) = LongDesc
            /\ Btoi(Extract(b2, PyTeal_STATUS_OFFSET(c), 1)) > 1
====
